---- MODULE Spec2Model ----
(***************************************************************************)
(* Rorschach Rain: the tile cache, the canvas layer's render pass and the  *)
(* application controller's frame handling, as a state machine.            *)
(*                                                                         *)
(* Optional values (null / undefined in the source) are sequences of       *)
(* length 0 or 1: <<>> is null, <<v>> is the value v.                      *)
(***************************************************************************)
EXTENDS Integers, Sequences, FiniteSets, TLC

VARIABLES
    cache,              \* TileCache.cache: Map key -> Image
    activeRequests,     \* TileCache.activeRequests: Set of keys
    images,             \* Image objects whose onload/onerror has not fired yet
    frames,             \* App.frames
    currentFrameIndex,  \* App.currentFrameIndex (0-based, as in the source)
    layerFrame,         \* L.RorschachLayer.frame
    view,               \* the map: <<>> (no map) or <<[zoom, origin, size]>>
    mode,               \* L.RorschachLayer.mode
    status,             \* text of #status-indicator
    errorShown,         \* text set by App.showError ("" when none)
    fallback,           \* the fallback overlay was added (offline presentation)
    isPlaying,          \* App.isPlaying
    timers,             \* interval timers that are active
    playInterval,       \* App.playInterval
    radarLoaded,        \* App.loadRadarData has run to its end
    last,               \* what the step just taken did (its calls and results)
    failures,           \* history: key -> fetches of it that failed in a row
    askedSince,         \* history: keys get was called for since their last failure
    ink,                \* _applyInkEffect on its own: the buffer's pixel data
    extraction,         \* getOutlines on its own: buffer, clip rectangle, result
    shape,              \* ShapeAnalyzer.analyze on its own: blob, bounds, result
    analysis,           \* identifyObject and the analyses it schedules
    selectionTool       \* the selection tool: its mode, flags, rectangle and handles

vars == <<cache, activeRequests, images, frames, currentFrameIndex, layerFrame,
          view, mode, status, errorShown, fallback, isPlaying, timers, playInterval,
          radarLoaded, last, failures, askedSince, ink, extraction, shape, analysis,
          selectionTool>>

cacheVars == <<cache, activeRequests, images>>
retryVars == <<failures, askedSince>>
pureVars == <<ink, extraction, shape, analysis, selectionTool>>
appVars == <<frames, currentFrameIndex, layerFrame, errorShown, fallback,
             isPlaying, timers, playInterval, radarLoaded>>

----------------------------------------------------------------------------
(* Program constants *)

tileSize == 256

maxPreload == 5

defaultZoom == 7

\* how many frames showFrame hands to preload
futureFrames == 5

----------------------------------------------------------------------------
(* The viewport provider (the Leaflet map), at its boundary.  A viewport is *)
(* its zoom, the world pixel coordinate of its north-west corner at that    *)
(* zoom, and its size in pixels; project(bounds.getNorthWest(), zoom) is    *)
(* the origin and project(bounds.getSouthEast(), zoom) is origin + size.    *)

Floor(a, b) == a \div b

Ceil(a, b) == -((-a) \div b)

projectNW(v) == v.origin

projectSE(v) == <<v.origin[1] + v.size[1], v.origin[2] + v.size[2]>>

\* map.project(..).divideBy(tileSize).floor() / .ceil()
tileNW(v) == [x |-> Floor(projectNW(v)[1], tileSize), y |-> Floor(projectNW(v)[2], tileSize)]

tileSE(v) == [x |-> Ceil(projectSE(v)[1], tileSize), y |-> Ceil(projectSE(v)[2], tileSize)]

\* latLngToContainerPoint(unproject([x * tileSize, y * tileSize], zoom))
drawPos(v, x, y) == <<x * tileSize - v.origin[1], y * tileSize - v.origin[2]>>

----------------------------------------------------------------------------
(* TileCache *)

getKey(path, z, x, y) ==
    path \o "-" \o ToString(z) \o "-" \o ToString(x) \o "-" \o ToString(y)

\* new Image(): an object distinct from every Image that exists for the key
newImageId(tc, key) ==
    LET used == {i.id : i \in {j \in tc.images : j.key = key}}
                  \cup (IF key \in DOMAIN tc.cache THEN {tc.cache[key].id} ELSE {})
    IN CHOOSE n \in 0..Cardinality(used) : n \notin used /\ \A m \in 0..(n - 1) : m \in used

\* fetch as it would be if it stored the Image in the cache when requesting it
fetchCachesAtRequest(tc, path, z, x, y) ==
    LET key == getKey(path, z, x, y)
        img == [key |-> key, path |-> path, z |-> z, x |-> x, y |-> y,
                id |-> newImageId(tc, key), complete |-> FALSE, naturalWidth |-> 0]
    IN [tc EXCEPT !.activeRequests = @ \cup {key},
                  !.images = @ \cup {img},
                  !.cache = [k \in DOMAIN tc.cache \cup {key} |->
                                IF k = key THEN img ELSE tc.cache[k]],
                  !.fetched = TRUE]

fetch(tc, path, z, x, y) ==
    LET key == getKey(path, z, x, y)
        img == [key |-> key, path |-> path, z |-> z, x |-> x, y |-> y,
                id |-> newImageId(tc, key), complete |-> FALSE, naturalWidth |-> 0]
    IN [tc EXCEPT !.activeRequests = @ \cup {key},
                  !.images = @ \cup {img},
                  !.fetched = TRUE]

\* get without the in-flight check: a fetch on every miss
getNoInFlightCheck(tc, path, z, x, y) ==
    LET key == getKey(path, z, x, y)
        t0 == [tc EXCEPT !.fetched = FALSE]
    IN IF key \in DOMAIN t0.cache
         THEN [t0 EXCEPT !.ret = <<t0.cache[key]>>]
         ELSE [fetch(t0, path, z, x, y) EXCEPT !.ret = <<>>]

\* get with the in-flight check inverted
getInvertedCheck(tc, path, z, x, y) ==
    LET key == getKey(path, z, x, y)
        t0 == [tc EXCEPT !.fetched = FALSE]
    IN IF key \in DOMAIN t0.cache
         THEN [t0 EXCEPT !.ret = <<t0.cache[key]>>]
         ELSE IF key \in t0.activeRequests
                THEN [fetch(t0, path, z, x, y) EXCEPT !.ret = <<>>]
                ELSE [t0 EXCEPT !.ret = <<>>]

\* get: the cache after the call, and the value returned (ret)
get(tc, path, z, x, y) ==
    LET key == getKey(path, z, x, y)
        t0 == [tc EXCEPT !.fetched = FALSE]
    IN IF key \in DOMAIN t0.cache
         THEN [t0 EXCEPT !.ret = <<t0.cache[key]>>]
         ELSE IF key \notin t0.activeRequests
                THEN [fetch(t0, path, z, x, y) EXCEPT !.ret = <<>>]
                ELSE [t0 EXCEPT !.ret = <<>>]

\* The Image once the browser has loaded it: the same object, now complete
loadedImage(img) == [img EXCEPT !.complete = TRUE, !.naturalWidth = tileSize]

\* onload as it would be if it rebuilt the map around the tile just loaded
onloadReplacesMap(tc, img) ==
    [tc EXCEPT !.cache = [k \in {img.key} |-> loadedImage(img)],
               !.activeRequests = @ \ {img.key},
               !.images = @ \ {img}]

\* onload as it would be if a tile of a frame or zoom no longer displayed
\* were dropped instead of stored
onloadDropsStale(tc, img) ==
    IF layerFrame # <<>> /\ view # <<>> /\ img.path = layerFrame[1].path
          /\ img.z = view[1].zoom
      THEN [tc EXCEPT !.cache = [k \in DOMAIN tc.cache \cup {img.key} |->
                                    IF k = img.key THEN loadedImage(img) ELSE tc.cache[k]],
                      !.activeRequests = @ \ {img.key},
                      !.images = @ \ {img}]
      ELSE [tc EXCEPT !.activeRequests = @ \ {img.key},
                      !.images = @ \ {img}]

\* img.onload
onload(tc, img) ==
    [tc EXCEPT !.cache = [k \in DOMAIN tc.cache \cup {img.key} |->
                             IF k = img.key THEN loadedImage(img) ELSE tc.cache[k]],
               !.activeRequests = @ \ {img.key},
               !.images = @ \ {img}]

\* onerror as it would be if it stored the Image as onload does
onerrorCachesImage(tc, img) ==
    [tc EXCEPT !.cache = [k \in DOMAIN tc.cache \cup {img.key} |->
                             IF k = img.key THEN img ELSE tc.cache[k]],
               !.activeRequests = @ \ {img.key},
               !.images = @ \ {img}]

\* onerror as it would be if it left the in-flight marker in place
onerrorKeepsMarker(tc, img) ==
    [tc EXCEPT !.images = @ \ {img}]

\* img.onerror
onerror(tc, img) ==
    [tc EXCEPT !.activeRequests = @ \ {img.key},
               !.images = @ \ {img}]

\* The cache as the record the operators above work on; calls is the log of
\* the get calls a handler makes, in order.
TC == [cache |-> cache, activeRequests |-> activeRequests, images |-> images,
       fetched |-> FALSE, ret |-> <<>>, calls |-> <<>>]

\* one get call of a handler's loop, logged
loggedGet(tc, path, z, x, y) ==
    LET r == get(tc, path, z, x, y)
    IN [r EXCEPT !.calls = Append(@, [key |-> getKey(path, z, x, y), path |-> path,
                                      z |-> z, x |-> x, y |-> y,
                                      cached |-> getKey(path, z, x, y) \in DOMAIN tc.cache,
                                      active |-> getKey(path, z, x, y) \in tc.activeRequests,
                                      ret |-> r.ret, fetched |-> r.fetched])]

RECURSIVE preloadY(_, _, _, _, _, _)
preloadY(tc, path, zoom, x, y, se) ==
    IF y < se.y
      THEN preloadY(loggedGet(tc, path, zoom, x, y), path, zoom, x, y + 1, se)
      ELSE tc

RECURSIVE preloadX(_, _, _, _, _, _)
preloadX(tc, path, zoom, x, nw, se) ==
    IF x < se.x
      THEN preloadX(preloadY(tc, path, zoom, x, nw.y, se), path, zoom, x + 1, nw, se)
      ELSE tc

Min(a, b) == IF a < b THEN a ELSE b

\* the frame loop's bound as it would be without the cap
preloadLimitUncapped(fs) == Len(fs)

preloadLimit(fs) == Min(Len(fs), maxPreload)

RECURSIVE preloadFrames(_, _, _, _)
preloadFrames(tc, fs, i, map) ==
    IF i < preloadLimit(fs)
      THEN preloadFrames(preloadX(tc, fs[i + 1].path, map.zoom, tileNW(map).x,
                                  tileNW(map), tileSE(map)),
                         fs, i + 1, map)
      ELSE tc

\* preload(frames, map); map is <<>> when there is none
preload(tc, fs, map) ==
    IF map = <<>> THEN tc ELSE preloadFrames(tc, fs, 0, map[1])

----------------------------------------------------------------------------
(* L.RorschachLayer *)

\* The threshold-and-flatten loop of _applyInkEffect over ImageData.data, a
\* flat array of bytes, four (R, G, B, A) per pixel; i is the 0-based index
\* of the source, data[i + 1] here is data[i] there.
RECURSIVE binarizeTestsRed(_, _)
binarizeTestsRed(data, i) ==
    IF i < Len(data)
      THEN binarizeTestsRed(IF data[i + 1] > 0
                              THEN [data EXCEPT ![i + 1] = 255, ![i + 2] = 255,
                                                ![i + 3] = 255, ![i + 4] = 255]
                              ELSE data,
                            i + 4)
      ELSE data

RECURSIVE binarize(_, _)
binarize(data, i) ==
    IF i < Len(data)
      THEN binarize(IF data[i + 3 + 1] > 0
                      THEN [data EXCEPT ![i + 1] = 255, ![i + 2] = 255,
                                        ![i + 3] = 255, ![i + 4] = 255]
                      ELSE data,
                    i + 4)
      ELSE data

\* _applyInkEffect on pixel data: getImageData, the loop, putImageData, then
\* the buffer drawn to the main canvas through the filter
inkAlpha(m) == IF m = "both" THEN 80 ELSE 90

applyInkEffectData(k, m) ==
    [before |-> k.buffer,
     buffer |-> binarize(k.buffer, 0),
     canvas |-> Append(k.canvas, [op |-> "ink", blur |-> 3, contrast |-> 200,
                                  alpha |-> inkAlpha(m)]),
     applied |-> TRUE]

\* _applyInkEffect: the buffer's tiles flattened to white, then drawn to the
\* main canvas through blur(3px) contrast(200%) at alpha 0.8 (both) or 0.9
applyInkEffect(r, m) ==
    [r EXCEPT !.binarized = TRUE,
              !.canvas = Append(@, [op |-> "ink", blur |-> 3, contrast |-> 200,
                                    alpha |-> IF m = "both" THEN 80 ELSE 90])]

\* the loop body as it would be if it counted a tile in total only when the
\* tile is missing
renderTileCountsMissing(r, frame, map, x, y) ==
    LET t == loggedGet(r.tc, frame.path, map.zoom, x, y)
        img == t.ret
        pos == drawPos(map, x, y)
        r1 == [r EXCEPT !.tc = t, !.visited = Append(@, <<x, y>>)]
    IN IF img # <<>> /\ img[1].complete /\ img[1].naturalWidth > 0
         THEN [r1 EXCEPT !.buffer = Append(@, [img |-> img[1], pos |-> pos]),
                         !.canvas = Append(@, [op |-> "loaded", pos |-> pos]),
                         !.loadedCount = @ + 1]
         ELSE [r1 EXCEPT !.canvas = Append(@, [op |-> "loading", pos |-> pos]),
                         !.totalCount = @ + 1]

\* one iteration of the tile loop's body, for tile (x, y)
renderTile(r, frame, map, x, y) ==
    LET t == loggedGet(r.tc, frame.path, map.zoom, x, y)
        img == t.ret
        pos == drawPos(map, x, y)
        r1 == [r EXCEPT !.tc = t, !.totalCount = @ + 1, !.visited = Append(@, <<x, y>>)]
    IN IF img # <<>> /\ img[1].complete /\ img[1].naturalWidth > 0
         THEN [r1 EXCEPT !.buffer = Append(@, [img |-> img[1], pos |-> pos]),
                         !.canvas = Append(@, [op |-> "loaded", pos |-> pos]),
                         !.loadedCount = @ + 1]
         ELSE [r1 EXCEPT !.canvas = Append(@, [op |-> "loading", pos |-> pos])]

\* the column loop as it would be if it stopped at a tile still in flight
RECURSIVE renderYWaits(_, _, _, _, _)
renderYWaits(r, frame, map, x, y) ==
    IF y < tileSE(map).y /\ getKey(frame.path, map.zoom, x, y) \notin r.tc.activeRequests
      THEN renderYWaits(renderTile(r, frame, map, x, y), frame, map, x, y + 1)
      ELSE r

RECURSIVE renderY(_, _, _, _, _)
renderY(r, frame, map, x, y) ==
    IF y < tileSE(map).y
      THEN renderY(renderTile(r, frame, map, x, y), frame, map, x, y + 1)
      ELSE r

RECURSIVE renderX(_, _, _, _)
renderX(r, frame, map, x) ==
    IF x < tileSE(map).x
      THEN renderX(renderY(r, frame, map, x, tileNW(map).y), frame, map, x + 1)
      ELSE r

renderEffects(r, m) ==
    IF m = "radar"
      THEN [r EXCEPT !.canvas = Append(@, [op |-> "buffer", alpha |-> 80])]
      ELSE IF m = "inkblot"
        THEN applyInkEffect(r, m)
        ELSE IF m = "both"
          THEN applyInkEffect([r EXCEPT !.canvas = Append(@, [op |-> "buffer", alpha |-> 50])], m)
          ELSE r

\* the status test as it would be without the check for an empty rectangle
renderStatusNoEmptyCheck(r) ==
    IF r.loadedCount = r.totalCount THEN "ONLINE" ELSE "SCANNING..."

renderStatus(r) ==
    IF r.loadedCount = r.totalCount /\ r.totalCount > 0 THEN "ONLINE" ELSE "SCANNING..."

\* the start of a pass as it would be if the buffer were not cleared
NoPassKeepsBuffer == [tc |-> TC, ran |-> FALSE, loadedCount |-> 0, totalCount |-> 0,
                      visited |-> <<>>, buffer |-> last.buffer, canvas |-> <<>>,
                      binarized |-> FALSE]

\* the cleared canvases and buffer, the counts at zero (also the result of a
\* pass that returns at once)
NoPass == [tc |-> TC, ran |-> FALSE, loadedCount |-> 0, totalCount |-> 0,
           visited |-> <<>>, buffer |-> <<>>, canvas |-> <<>>, binarized |-> FALSE]

\* _render: one compositing pass over the cleared canvases and buffer
_render(tc, frame, map, m) ==
    IF map = <<>> \/ frame = <<>>
      THEN [NoPass EXCEPT !.tc = tc]
      ELSE renderEffects(renderX([NoPass EXCEPT !.tc = tc, !.ran = TRUE],
                                 frame[1], map[1], tileNW(map[1]).x), m)

----------------------------------------------------------------------------
(* L.RorschachLayer.getOutlines                                             *)
(*                                                                         *)
(* The buffer is its alpha channel, a sequence of rows of bytes; sample    *)
(* (x, y), counted from 0 as in the source, is rows[y + 1][x + 1].          *)
(* Container points are kept exactly, in sixths of a pixel: a segment end  *)
(* (x + p) / 0.75 with p in {0, 0.5, 1} is 8x + 8p sixths.                  *)

\* const scale = 0.75, as scaleNum / scaleDen
scaleNum == 3

scaleDen == 4

\* const threshold = 60
threshold == 60

\* blur(8px): a Gaussian of standard deviation 8, which the filter
\* specification lets a browser compute as three box blurs of
\* floor(8 * 3 * sqrt(2 * pi) / 4 + 0.5) = 15 pixels
blurBox == 15

\* one container pixel, in the unit of container points
Px == 6

Max(a, b) == IF a > b THEN a ELSE b

smallSize(n) == (n * scaleNum) \div scaleDen

RECURSIVE zeros(_)
zeros(n) == IF n = 0 THEN <<>> ELSE Append(zeros(n - 1), 0)

\* drawImage to a canvas of m samples from n: each destination sample is the
\* mean of the source samples it covers, weighted by the cover
RECURSIVE covered(_, _, _, _, _, _)
covered(row, n, m, i, j, hi) ==
    IF j > hi THEN 0
    ELSE (Min((i + 1) * n, (j + 1) * m) - Max(i * n, j * m)) * row[j + 1]
         + covered(row, n, m, i, j + 1, hi)

RECURSIVE resample(_, _, _)
resample(row, m, acc) ==
    IF Len(acc) = m THEN acc
    ELSE LET i == Len(acc)
             n == Len(row)
         IN resample(row, m,
                     Append(acc, covered(row, n, m, i, (i * n) \div m,
                                         Min(n - 1, ((i + 1) * n - 1) \div m)) \div n))

\* running sums: prefix(row, <<0>>)[k + 1] is the sum of the first k samples
RECURSIVE prefix(_, _)
prefix(row, acc) ==
    IF Len(acc) = Len(row) + 1 THEN acc
    ELSE prefix(row, Append(acc, acc[Len(acc)] + row[Len(acc)]))

\* one box blur of blurBox samples, centred, transparent beyond the row
RECURSIVE boxSums(_, _, _)
boxSums(ps, n, acc) ==
    IF Len(acc) = n THEN acc
    ELSE LET i == Len(acc) + 1
         IN boxSums(ps, n, Append(acc, ps[Min(n, i + blurBox \div 2) + 1]
                                       - ps[Max(1, i - blurBox \div 2)]))

box(row) == boxSums(prefix(row, <<0>>), Len(row), <<>>)

\* the division as it would be if it counted two of the three box blurs
RECURSIVE normalisedTwoPasses(_, _, _, _)
normalisedTwoPasses(row, from, m, acc) ==
    IF Len(acc) = m THEN acc
    ELSE normalisedTwoPasses(row, from, m,
                             Append(acc, row[from + Len(acc) + 1] \div (blurBox * blurBox)))

RECURSIVE normalised(_, _, _, _)
normalised(row, from, m, acc) ==
    IF Len(acc) = m THEN acc
    ELSE normalised(row, from, m,
                    Append(acc, row[from + Len(acc) + 1] \div (blurBox * blurBox * blurBox)))

\* the blur along one axis as it would be with a blur of no extent
blurRowSharp(row) == row

\* the blur along one axis: the row with room for the spread on both sides,
\* three box blurs, and the part inside the canvas
blurRow(row) ==
    LET room == 3 * (blurBox \div 2)
        wide == zeros(room) \o row \o zeros(room)
    IN normalised(box(box(box(wide))), room, Len(row), <<>>)

RECURSIVE column(_, _, _)
column(rows, x, acc) ==
    IF Len(acc) = Len(rows) THEN acc
    ELSE column(rows, x, Append(acc, rows[Len(acc) + 1][x]))

RECURSIVE transpose(_, _, _)
transpose(rows, w, acc) ==
    IF Len(acc) = w THEN acc
    ELSE transpose(rows, w, Append(acc, column(rows, Len(acc) + 1, <<>>)))

RECURSIVE stylizeRows(_, _, _)
stylizeRows(rows, m, acc) ==
    IF Len(acc) = Len(rows) THEN acc
    ELSE stylizeRows(rows, m, Append(acc, blurRow(resample(rows[Len(acc) + 1], m, <<>>))))

\* smCtx.filter = 'blur(8px) contrast(400%)'; drawImage(buffer, 0, 0, smWidth,
\* smHeight): the alpha of the small canvas (contrast changes the colour
\* channels only).  Rows first, then columns.
stylize(rows, smWidth, smHeight) ==
    IF smWidth = 0 \/ smHeight = 0 THEN zeros(0)
    ELSE transpose(stylizeRows(transpose(stylizeRows(rows, smWidth, <<>>), smWidth, <<>>),
                               smHeight, <<>>),
                   smHeight, <<>>)

\* the part of sample i along one axis, in fourths of a sample, that the
\* scaled clip interval [lo * scale, hi * scale) covers
cover(i, lo, hi) ==
    Max(0, Min(scaleDen * (i + 1), scaleNum * hi) - Max(scaleDen * i, scaleNum * lo))

RECURSIVE clipRow(_, _, _, _)
clipRow(row, cy, c, acc) ==
    IF Len(acc) = Len(row) THEN acc
    ELSE clipRow(row, cy, c,
                 Append(acc, (row[Len(acc) + 1] * cover(Len(acc), c.minX, c.maxX) * cy)
                             \div (scaleDen * scaleDen)))

\* the clip as it would be if it kept every sample
clipRowsKeepsAll(rows, c, acc) == rows

\* destination-in with the filled rectangle: a sample keeps the share of its
\* alpha that the rectangle covers
RECURSIVE clipRows(_, _, _)
clipRows(rows, c, acc) ==
    IF Len(acc) = Len(rows) THEN acc
    ELSE clipRows(rows, c,
                  Append(acc, clipRow(rows[Len(acc) + 1],
                                      cover(Len(acc), c.minY, c.maxY), c, <<>>)))

\* getState(x, y) of the source over the sample data
\* getState as it would be with a sample at the threshold counted inside
getStateAtThreshold(data, smWidth, smHeight, x, y) ==
    IF x < 0 \/ y < 0 \/ x >= smWidth \/ y >= smHeight THEN 0
    ELSE IF data[y + 1][x + 1] >= threshold THEN 1 ELSE 0

getState(data, smWidth, smHeight, x, y) ==
    IF x < 0 \/ y < 0 \/ x >= smWidth \/ y >= smHeight THEN 0
    ELSE IF data[y + 1][x + 1] > threshold THEN 1 ELSE 0

\* the lookup table, lines[index + 1] for index 0..15; a point <<a, b>> is
\* the cell-relative point [a / 2, b / 2]
lines == <<
    <<>>,
    << <<0, 1>>, <<1, 2>> >>,
    << <<1, 2>>, <<2, 1>> >>,
    << <<0, 1>>, <<2, 1>> >>,
    << <<1, 0>>, <<2, 1>> >>,
    << <<0, 1>>, <<1, 0>>, <<1, 2>>, <<2, 1>> >>,
    << <<1, 0>>, <<1, 2>> >>,
    << <<0, 1>>, <<1, 0>> >>,
    << <<0, 1>>, <<1, 0>> >>,
    << <<1, 0>>, <<1, 2>> >>,
    << <<1, 0>>, <<2, 1>>, <<0, 1>>, <<1, 2>> >>,
    << <<1, 0>>, <<2, 1>> >>,
    << <<0, 1>>, <<2, 1>> >>,
    << <<1, 2>>, <<2, 1>> >>,
    << <<0, 1>>, <<1, 2>> >>,
    <<>> >>

\* (x + p) / scale for p = half / 2, in sixths of a pixel
scaleUp(x, half) == ((2 * x + half) * Px * scaleDen) \div (2 * scaleNum)

Min3(a, b, c) == Min(a, Min(b, c))

Max3(a, b, c) == Max(a, Max(b, c))

\* the loop over segs as it would be if the bounds took in the first point
\* of a segment only
RECURSIVE emitBoundsFirstPoint(_, _, _, _, _)
emitBoundsFirstPoint(o, segs, i, x, y) ==
    IF i < Len(segs)
      THEN IF i + 1 < Len(segs)
             THEN LET p1 == segs[i + 1]
                      p2 == segs[i + 2]
                      x1 == scaleUp(x, p1[1])
                      y1 == scaleUp(y, p1[2])
                      x2 == scaleUp(x, p2[1])
                      y2 == scaleUp(y, p2[2])
                  IN emitBoundsFirstPoint(
                         [o EXCEPT !.segments = Append(@, <<x1, y1, x2, y2>>),
                                   !.minX = Min(@, x1), !.minY = Min(@, y1),
                                   !.maxX = Max(@, x1), !.maxY = Max(@, y1)],
                         segs, i + 2, x, y)
             ELSE emitBoundsFirstPoint(o, segs, i + 1, x, y)
      ELSE o

\* the loop over segs as it would be without the second i++
RECURSIVE emitEveryPair(_, _, _, _, _)
emitEveryPair(o, segs, i, x, y) ==
    IF i < Len(segs)
      THEN IF i + 1 < Len(segs)
             THEN LET p1 == segs[i + 1]
                      p2 == segs[i + 2]
                      x1 == scaleUp(x, p1[1])
                      y1 == scaleUp(y, p1[2])
                      x2 == scaleUp(x, p2[1])
                      y2 == scaleUp(y, p2[2])
                  IN emitEveryPair(
                         [o EXCEPT !.segments = Append(@, <<x1, y1, x2, y2>>),
                                   !.minX = Min3(@, x1, x2), !.minY = Min3(@, y1, y2),
                                   !.maxX = Max3(@, x1, x2), !.maxY = Max3(@, y1, y2)],
                         segs, i + 1, x, y)
             ELSE emitEveryPair(o, segs, i + 1, x, y)
      ELSE o

\* the loop over segs: for (i = 0; i < segs.length; i++), pairs taken at i
\* and i + 1 with a second i++; o is the scan so far
RECURSIVE emit(_, _, _, _, _)
emit(o, segs, i, x, y) ==
    IF i < Len(segs)
      THEN IF i + 1 < Len(segs)
             THEN LET p1 == segs[i + 1]
                      p2 == segs[i + 2]
                      x1 == scaleUp(x, p1[1])
                      y1 == scaleUp(y, p1[2])
                      x2 == scaleUp(x, p2[1])
                      y2 == scaleUp(y, p2[2])
                  IN emit([o EXCEPT !.segments = Append(@, <<x1, y1, x2, y2>>),
                                    !.minX = Min3(@, x1, x2), !.minY = Min3(@, y1, y2),
                                    !.maxX = Max3(@, x1, x2), !.maxY = Max3(@, y1, y2)],
                          segs, i + 2, x, y)
             ELSE emit(o, segs, i + 1, x, y)
      ELSE o

\* the body of the scan as it would be if only index 0 were skipped
cellSkipsOnlyEmpty(o, x, y) ==
    LET tl == getState(o.data, o.smWidth, o.smHeight, x, y)
        tr == getState(o.data, o.smWidth, o.smHeight, x + 1, y)
        br == getState(o.data, o.smWidth, o.smHeight, x + 1, y + 1)
        bl == getState(o.data, o.smWidth, o.smHeight, x, y + 1)
        index == (tl * 8) + (tr * 4) + (br * 2) + (bl * 1)
    IN IF index = 0
         THEN o
         ELSE emit([o EXCEPT !.hasShape = TRUE], lines[index + 1], 0, x, y)

\* the body of the scan for the block whose top-left sample is (x, y)
cell(o, x, y) ==
    LET tl == getState(o.data, o.smWidth, o.smHeight, x, y)
        tr == getState(o.data, o.smWidth, o.smHeight, x + 1, y)
        br == getState(o.data, o.smWidth, o.smHeight, x + 1, y + 1)
        bl == getState(o.data, o.smWidth, o.smHeight, x, y + 1)
        index == (tl * 8) + (tr * 4) + (br * 2) + (bl * 1)
    IN IF index = 0 \/ index = 15
         THEN o
         ELSE emit([o EXCEPT !.hasShape = TRUE], lines[index + 1], 0, x, y)

RECURSIVE scanX(_, _, _)
scanX(o, x, y) ==
    IF x < o.smWidth - 1 THEN scanX(cell(o, x, y), x + 1, y) ELSE o

RECURSIVE scanY(_, _)
scanY(o, y) ==
    IF y < o.smHeight - 1 THEN scanY(scanX(o, 0, y), y + 1) ELSE o

\* map.containerPointToLatLng over exact container points: the degrees grow
\* eastwards with x and shrink southwards with y; the unit is a sixth of a
\* pixel of the map's zoom level
containerPointToLatLng(map, pt) ==
    [lat |-> -(Px * map.origin[2] + pt[2]), lng |-> Px * map.origin[1] + pt[1]]

RECURSIVE latLngSegments(_, _, _)
latLngSegments(map, segments, acc) ==
    IF Len(acc) = Len(segments) THEN acc
    ELSE LET seg == segments[Len(acc) + 1]
         IN latLngSegments(map, segments,
                           Append(acc, <<containerPointToLatLng(map, <<seg[1], seg[2]>>),
                                         containerPointToLatLng(map, <<seg[3], seg[4]>>)>>))

\* let minX = smWidth, minY = smHeight, maxX = 0, maxY = 0
firstBounds(smWidth, smHeight) ==
    [minX |-> Px * smWidth, minY |-> Px * smHeight, maxX |-> 0, maxY |-> 0]

\* the result as it would be if the segments were returned whether or not
\* the scan found a shape
blobOfAlways(o, map) ==
    <<[segments |-> latLngSegments(map, o.segments, <<>>),
       center |-> containerPointToLatLng(map, <<o.minX + (o.maxX - o.minX) \div 2,
                                                o.minY + (o.maxY - o.minY) \div 2>>)]>>

\* the end of getOutlines: the blob, or null
blobOf(o, map) ==
    IF o.hasShape
      THEN <<[segments |-> latLngSegments(map, o.segments, <<>>),
              center |-> containerPointToLatLng(map, <<o.minX + (o.maxX - o.minX) \div 2,
                                                       o.minY + (o.maxY - o.minY) \div 2>>)]>>
      ELSE <<>>

\* getOutlines(clippingBounds) over the buffer: what it returns (blob) and
\* what it computed on the way
getOutlines(buffer, clippingBounds, map) ==
    LET smWidth == smallSize(buffer.width)
        smHeight == smallSize(buffer.height)
        drawn == stylize(buffer.alpha, smWidth, smHeight)
        data == IF clippingBounds # <<>> THEN clipRows(drawn, clippingBounds[1], <<>>) ELSE drawn
        b == firstBounds(smWidth, smHeight)
        o == scanY([data |-> data, drawn |-> drawn, smWidth |-> smWidth, smHeight |-> smHeight,
                    segments |-> <<>>, minX |-> b.minX, minY |-> b.minY,
                    maxX |-> b.maxX, maxY |-> b.maxY, hasShape |-> FALSE], 0)
    IN o @@ [blob |-> blobOf(o, map)]

----------------------------------------------------------------------------
(* App *)

\* What the metadata request yields: the request or its parsing fails
\* (ok = FALSE), or a document whose radar.past / radar.nowcast are lists or
\* are missing (<<>> missing, <<list>> present).
Frame(t, p) == [time |-> t, path |-> p]

FeedDown == [ok |-> FALSE, past |-> <<>>, nowcast |-> <<>>]

FeedAB == [ok |-> TRUE, past |-> << <<Frame(1, "/a")>> >>, nowcast |-> << <<Frame(2, "/b")>> >>]

\* frames.slice(from, to), 0-based and clipped as Array.prototype.slice does
slice(fs, from, to) ==
    SubSeq(fs, from + 1, Min(to, Len(fs)))

\* stopAnimation: clearInterval(this.playInterval) stops that timer if it runs
stoppedTimers == timers \ {playInterval[i] : i \in DOMAIN playInterval}

\* The map once loadFallbackMode has fitted it to the fallback overlay
FallbackView == [zoom |-> 4, origin |-> <<512, 1280>>, size |-> <<300, 200>>]

Step(op) == [op |-> op, ran |-> FALSE, calls |-> <<>>, loadedCount |-> 0, totalCount |-> 0,
             visited |-> <<>>, buffer |-> <<>>, canvas |-> <<>>, binarized |-> FALSE,
             img |-> <<>>, index |-> 0, again |-> FALSE, feed |-> <<>>]

\* the catch block as it would be without loadFallbackMode
LoadFailedErrorOnly ==
    /\ errorShown' = "CONNECTION FAIL"
    /\ status' = "ERROR"
    /\ UNCHANGED <<fallback, view>>

\* the catch block of loadRadarData: showError, then loadFallbackMode
LoadFailed ==
    /\ errorShown' = "CONNECTION FAIL"
    /\ fallback' = TRUE
    /\ view' = <<FallbackView>>
    /\ status' = "OFFLINE MODE"

\* the frames as they would be with the forecast first
framesOfNowcastFirst(data) == data.nowcast[1] \o data.past[1]

\* [...data.radar.past, ...data.radar.nowcast]
framesOf(data) == data.past[1] \o data.nowcast[1]

\* loadRadarData, from the response's arrival to the end of the function
LoadRadarData(data) ==
    /\ ~radarLoaded
    /\ radarLoaded' = TRUE
    /\ last' = [Step("loadRadarData") EXCEPT !.feed = <<data>>]
    /\ UNCHANGED <<cacheVars, mode, isPlaying, timers, playInterval, pureVars>>
    /\ IF ~data.ok
         THEN LoadFailed /\ UNCHANGED <<frames, currentFrameIndex, layerFrame>>
         ELSE IF data.past = <<>>
           THEN /\ frames' = <<>>
                /\ errorShown' = "NO DATA"
                /\ status' = "ERROR"
                /\ UNCHANGED <<currentFrameIndex, layerFrame, fallback, view>>
           ELSE IF data.nowcast = <<>>
             \* spreading undefined throws before frames is assigned
             THEN LoadFailed /\ UNCHANGED <<frames, currentFrameIndex, layerFrame>>
             ELSE LET fs == framesOf(data)
                      idx == Len(data.past[1]) - 1
                  IN /\ frames' = fs
                     /\ IF Len(fs) = 0
                          THEN /\ errorShown' = "NO DATA"
                               /\ status' = "ERROR"
                               /\ UNCHANGED <<currentFrameIndex, layerFrame, fallback, view>>
                          ELSE /\ currentFrameIndex' = idx
                               /\ IF idx >= 0
                                    THEN /\ layerFrame' = <<fs[idx + 1]>>
                                         /\ status' = "ONLINE"
                                         /\ UNCHANGED <<errorShown, fallback, view>>
                                    \* frames[-1] is undefined: setFrame(undefined),
                                    \* then frame.time throws
                                    ELSE /\ layerFrame' = <<>>
                                         /\ LoadFailed

\* showFrame(index): the cache after it (with the log of its get calls) when
\* the index is in range
showFramePreload(index) == preload(TC, slice(frames, index, index + futureFrames), view)

\* the scrubber's input handler: showFrame(value), then stopAnimation()
ScrubberInput(index) ==
    /\ IF index >= 0 /\ index < Len(frames)
         THEN LET tc == showFramePreload(index)
              IN /\ currentFrameIndex' = index
                 /\ layerFrame' = <<frames[index + 1]>>
                 /\ cache' = tc.cache
                 /\ activeRequests' = tc.activeRequests
                 /\ images' = tc.images
                 /\ last' = [Step("scrubber") EXCEPT !.ran = TRUE, !.calls = tc.calls,
                                                     !.index = index]
         ELSE /\ UNCHANGED <<currentFrameIndex, layerFrame, cacheVars>>
              /\ last' = [Step("scrubber") EXCEPT !.index = index]
    /\ isPlaying' = FALSE
    /\ timers' = stoppedTimers
    /\ status' = "ONLINE"
    /\ UNCHANGED <<frames, view, mode, errorShown, fallback, playInterval, radarLoaded, pureVars>>

\* one turn of _renderLoop
Render ==
    LET r == _render(TC, layerFrame, view, mode)
    IN /\ cache' = r.tc.cache
       /\ activeRequests' = r.tc.activeRequests
       /\ images' = r.tc.images
       /\ status' = IF r.ran THEN renderStatus(r) ELSE status
       /\ last' = [Step("render") EXCEPT !.ran = r.ran, !.calls = r.tc.calls,
                                         !.loadedCount = r.loadedCount,
                                         !.totalCount = r.totalCount,
                                         !.visited = r.visited, !.buffer = r.buffer,
                                         !.canvas = r.canvas, !.binarized = r.binarized,
                                         \* the pass before this one was the step just
                                         \* before, and it started a fetch
                                         !.again = /\ last.op = "render" /\ last.ran
                                                   /\ \E n \in DOMAIN last.calls :
                                                         last.calls[n].fetched]
       /\ UNCHANGED <<appVars, view, mode, pureVars>>

\* a display-mode button: App.setMode, L.RorschachLayer.setMode
SetMode(m) ==
    /\ mode # m
    /\ mode' = m
    /\ last' = Step("setMode")
    /\ UNCHANGED <<cacheVars, appVars, view, status, pureVars>>

\* the user pans or zooms the map, or its container is resized
MoveView(v) ==
    /\ view # <<>>
    /\ view # <<v>>
    /\ view' = <<v>>
    /\ last' = Step("moveView")
    /\ UNCHANGED <<cacheVars, appVars, mode, status, pureVars>>

\* a tile image arrives: img.onload fires
FetchLoaded(img) ==
    /\ img \in images
    /\ LET tc == onload(TC, img)
       IN /\ cache' = tc.cache
          /\ activeRequests' = tc.activeRequests
          /\ images' = tc.images
    /\ last' = [Step("onload") EXCEPT !.img = <<img>>]
    /\ UNCHANGED <<appVars, view, mode, status, pureVars>>

\* a tile request fails: img.onerror fires
FetchFailed(img) ==
    /\ img \in images
    /\ LET tc == onerror(TC, img)
       IN /\ cache' = tc.cache
          /\ activeRequests' = tc.activeRequests
          /\ images' = tc.images
    /\ last' = [Step("onerror") EXCEPT !.img = <<img>>]
    /\ UNCHANGED <<appVars, view, mode, status, pureVars>>

----------------------------------------------------------------------------
(* The application: the state once the App is constructed (the map and the  *)
(* layer exist, the metadata request is under way), and its events.         *)

ViewWest == [zoom |-> defaultZoom, origin |-> <<-100, 0>>, size |-> <<300, 200>>]

ViewZoomed == [zoom |-> defaultZoom + 1, origin |-> <<0, 0>>, size |-> <<256, 256>>]

Views == {ViewWest, ViewZoomed}

Feeds == {FeedAB, FeedDown}

InitApp ==
    /\ cache = <<>>
    /\ activeRequests = {}
    /\ images = {}
    /\ currentFrameIndex = 0
    /\ layerFrame = <<>>
    /\ mode = "radar"
    /\ status = "CONNECTING..."
    /\ errorShown = ""
    /\ fallback = FALSE
    /\ isPlaying = FALSE
    /\ timers = {}
    /\ playInterval = <<>>
    /\ radarLoaded = FALSE
    /\ last = Step("init")
    /\ failures = <<>>
    /\ askedSince = {}

\* nothing is being transformed, extracted or analysed on its own
NoPure ==
    /\ ink = <<>>
    /\ extraction = <<>>
    /\ shape = <<>>
    /\ analysis = <<>>
    /\ selectionTool = <<>>

Init ==
    /\ InitApp
    /\ NoPure
    /\ frames = <<>>
    /\ view = <<ViewWest>>

Next ==
    \/ (\E data \in Feeds : LoadRadarData(data)) /\ UNCHANGED retryVars
    \/ (\E index \in -1..Len(frames) : ScrubberInput(index)) /\ UNCHANGED retryVars
    \/ Render /\ UNCHANGED retryVars
    \/ (\E v \in Views : MoveView(v)) /\ UNCHANGED retryVars
    \/ (\E img \in images : FetchLoaded(img)) /\ UNCHANGED retryVars
    \/ (\E img \in images : FetchFailed(img)) /\ UNCHANGED retryVars

Spec == Init /\ [][Next]_vars

----------------------------------------------------------------------------
(* The metadata load over feeds of every shape: the request fails, the     *)
(* document lacks a list, or it holds lists of up to two frames each.  The *)
(* scrubber and the render loop run on afterwards; no tile request         *)
(* completes.                                                              *)

FeedLists ==
    {<<>>, << <<>> >>, << <<Frame(1, "/a")>> >>, << <<Frame(1, "/a"), Frame(2, "/b")>> >>}

ForecastLists ==
    {<<>>, << <<>> >>, << <<Frame(3, "/c")>> >>, << <<Frame(3, "/c"), Frame(4, "/d")>> >>,
     << <<Frame(1, "/a")>> >>}

LoadFeeds ==
    {FeedDown} \cup {[ok |-> TRUE, past |-> p, nowcast |-> n] :
                       p \in FeedLists, n \in ForecastLists}

NextLoad ==
    \/ (\E data \in LoadFeeds : LoadRadarData(data)) /\ UNCHANGED retryVars
    \/ (\E index \in -1..Len(frames) : ScrubberInput(index)) /\ UNCHANGED retryVars
    \/ Render /\ UNCHANGED retryVars

SpecLoad == Init /\ [][NextLoad]_vars

----------------------------------------------------------------------------
(* The play button, the interval it starts and the scrubber, over the      *)
(* feeds above.  An interval is known by the id setInterval returned; ids  *)
(* count up, and the button is pressed until MaxIntervals were started.    *)

MaxIntervals == 3

\* the id setInterval returns: the one after the last it returned
nextInterval == IF playInterval = <<>> THEN 1 ELSE playInterval[1] + 1

\* toggleAnimation as it would be if it started an interval whatever
\* isPlaying says
ToggleAnimationAlwaysStarts ==
    /\ nextInterval <= MaxIntervals
    /\ isPlaying' = TRUE
    /\ playInterval' = <<nextInterval>>
    /\ timers' = timers \cup {nextInterval}
    /\ status' = "PLAYING"
    /\ last' = Step("toggleAnimation")
    /\ UNCHANGED <<cacheVars, frames, currentFrameIndex, layerFrame, view, mode, errorShown,
                   fallback, radarLoaded, pureVars>>

\* the play button: toggleAnimation, with startAnimation and stopAnimation
ToggleAnimation ==
    /\ IF isPlaying
         THEN /\ isPlaying' = FALSE
              /\ timers' = stoppedTimers
              /\ status' = "ONLINE"
              /\ UNCHANGED playInterval
         ELSE /\ nextInterval <= MaxIntervals
              /\ isPlaying' = TRUE
              /\ playInterval' = <<nextInterval>>
              /\ timers' = timers \cup {nextInterval}
              /\ status' = "PLAYING"
    /\ last' = Step("toggleAnimation")
    /\ UNCHANGED <<cacheVars, frames, currentFrameIndex, layerFrame, view, mode, errorShown,
                   fallback, radarLoaded, pureVars>>

\* the callback of a running interval: showFrame of the next index, or of 0
\* after the last
AnimationTick(t) ==
    /\ t \in timers
    /\ LET nextIndex == IF currentFrameIndex + 1 >= Len(frames) THEN 0
                        ELSE currentFrameIndex + 1
       IN IF nextIndex >= 0 /\ nextIndex < Len(frames)
            THEN LET tc == showFramePreload(nextIndex)
                 IN /\ currentFrameIndex' = nextIndex
                    /\ layerFrame' = <<frames[nextIndex + 1]>>
                    /\ cache' = tc.cache
                    /\ activeRequests' = tc.activeRequests
                    /\ images' = tc.images
                    /\ last' = [Step("tick") EXCEPT !.ran = TRUE, !.calls = tc.calls,
                                                    !.index = nextIndex]
            ELSE /\ UNCHANGED <<currentFrameIndex, layerFrame, cacheVars>>
                 /\ last' = [Step("tick") EXCEPT !.index = nextIndex]
    /\ UNCHANGED <<frames, view, mode, status, errorShown, fallback, isPlaying, timers,
                   playInterval, radarLoaded, pureVars>>

NextPlay ==
    \/ (\E data \in LoadFeeds : LoadRadarData(data)) /\ UNCHANGED retryVars
    \/ (\E index \in -1..Len(frames) : ScrubberInput(index)) /\ UNCHANGED retryVars
    \/ ToggleAnimation /\ UNCHANGED retryVars
    \/ (\E t \in timers : AnimationTick(t)) /\ UNCHANGED retryVars

SpecPlay == Init /\ [][NextPlay]_vars

----------------------------------------------------------------------------
(* Retry after failure: one frame, with the history of each key's failures. *)
(* The environment fails a key's fetches at most MaxFailures times in a row. *)

MaxFailures == 2

FeedA == [ok |-> TRUE, past |-> << <<Frame(1, "/a")>> >>, nowcast |-> << <<>> >>]

failuresOf(k) == IF k \in DOMAIN failures THEN failures[k] ELSE 0

\* the history after a handler's get calls
Asked == 
    /\ askedSince' = askedSince \cup {last'.calls[i].key : i \in DOMAIN last'.calls}
    /\ UNCHANGED failures

\* the history after img's fetch failed, and after it succeeded
FailureCounted(img) ==
    /\ failures' = [k \in DOMAIN failures \cup {img.key} |->
                       IF k = img.key THEN failuresOf(k) + 1 ELSE failures[k]]
    /\ askedSince' = askedSince \ {img.key}

FailuresReset(img) ==
    /\ failures' = [k \in DOMAIN failures \ {img.key} |-> failures[k]]
    /\ UNCHANGED askedSince

NextRetry ==
    \/ LoadRadarData(FeedA) /\ UNCHANGED retryVars
    \/ ScrubberInput(0) /\ Asked
    \/ Render /\ Asked
    \/ (\E img \in images : FetchLoaded(img) /\ FailuresReset(img))
    \/ (\E img \in images : /\ failuresOf(img.key) < MaxFailures
                            /\ FetchFailed(img)
                            /\ FailureCounted(img))

SpecRetry == Init /\ [][NextRetry]_vars

----------------------------------------------------------------------------
(* TileCache.preload called directly, for lists of up to six frames and with *)
(* or without a map, while the render loop displays the first frame.         *)

PreloadLists ==
    { <<>>,
      <<Frame(1, "/a")>>,
      <<Frame(1, "/a"), Frame(2, "/b"), Frame(3, "/a"), Frame(4, "/b"), Frame(5, "/c")>>,
      <<Frame(1, "/a"), Frame(2, "/b"), Frame(3, "/a"), Frame(4, "/b"), Frame(5, "/a"),
        Frame(6, "/c")>> }

InitPreload ==
    /\ cache = <<>>
    /\ activeRequests = {}
    /\ images = {}
    /\ frames \in PreloadLists
    /\ currentFrameIndex = 0
    /\ layerFrame = (IF frames = <<>> THEN <<>> ELSE <<frames[1]>>)
    /\ view \in {<<>>, <<ViewWest>>}
    /\ mode = "radar"
    /\ status = "ONLINE"
    /\ errorShown = ""
    /\ fallback = FALSE
    /\ isPlaying = FALSE
    /\ timers = {}
    /\ playInterval = <<>>
    /\ radarLoaded = TRUE
    /\ last = Step("init")
    /\ failures = <<>>
    /\ askedSince = {}
    /\ ink = <<>>
    /\ extraction = <<>>
    /\ shape = <<>>
    /\ analysis = <<>>
    /\ selectionTool = <<>>

Preload ==
    LET tc == preload(TC, frames, view)
    IN /\ cache' = tc.cache
       /\ activeRequests' = tc.activeRequests
       /\ images' = tc.images
       /\ last' = [Step("preload") EXCEPT !.ran = TRUE, !.calls = tc.calls]
       /\ UNCHANGED <<appVars, view, mode, status, pureVars>>

NextPreload ==
    \/ Preload /\ UNCHANGED retryVars
    \/ Render /\ UNCHANGED retryVars
    \/ (\E img \in images : FetchLoaded(img)) /\ UNCHANGED retryVars
    \/ (\E img \in images : FetchFailed(img)) /\ UNCHANGED retryVars

SpecPreload == InitPreload /\ [][NextPreload]_vars

----------------------------------------------------------------------------
(* The render pass over viewports that cover four tiles, one tile and none. *)

ViewQuad == [zoom |-> defaultZoom, origin |-> <<-100, 100>>, size |-> <<300, 300>>]

ViewHidden == [zoom |-> defaultZoom, origin |-> <<0, 0>>, size |-> <<0, 0>>]

RenderViews == {ViewQuad, ViewZoomed, ViewHidden}

Modes == {"radar", "inkblot", "both"}

InitRender ==
    /\ InitApp
    /\ NoPure
    /\ frames = <<>>
    /\ view = <<ViewQuad>>

NextRender ==
    \/ LoadRadarData(FeedA) /\ UNCHANGED retryVars
    \/ Render /\ UNCHANGED retryVars
    \/ (\E v \in RenderViews : MoveView(v)) /\ UNCHANGED retryVars
    \/ (\E m \in Modes : SetMode(m)) /\ UNCHANGED retryVars
    \/ (\E img \in images : FetchLoaded(img)) /\ UNCHANGED retryVars
    \/ (\E img \in images : FetchFailed(img)) /\ UNCHANGED retryVars

SpecRender == InitRender /\ [][NextRender]_vars

----------------------------------------------------------------------------
(* _applyInkEffect over the pixel data of small buffers.  getImageData      *)
(* returns unpremultiplied bytes of a premultiplied canvas: a pixel of      *)
(* alpha 0 reads as 0, 0, 0, 0.                                             *)

InkPixels == 2

Channel == {0, 200}

Pixel == {<<0, 0, 0, 0>>} \cup
         {<<r, g, b, a>> : r \in Channel, g \in Channel, b \in Channel, a \in {1, 128, 255}}

\* the byte arrays of InkPixels pixels
RECURSIVE PixelData(_)
PixelData(n) ==
    IF n = 0 THEN {<<>>} ELSE {d \o q : d \in PixelData(n - 1), q \in Pixel}

InitInk ==
    /\ InitApp
    /\ frames = <<>>
    /\ view = <<ViewWest>>
    /\ extraction = <<>>
    /\ shape = <<>>
    /\ analysis = <<>>
    /\ selectionTool = <<>>
    /\ \E d \in PixelData(InkPixels) :
          ink = <<[before |-> d, buffer |-> d, canvas |-> <<>>, applied |-> FALSE]>>

\* the effect applied in an ink mode; the mode buttons change the mode
ApplyInk ==
    /\ mode \in {"inkblot", "both"}
    /\ ~ink[1].applied
    /\ ink' = <<applyInkEffectData(ink[1], mode)>>
    /\ last' = Step("applyInk")
    /\ UNCHANGED <<cacheVars, appVars, retryVars, view, mode, status, extraction, shape, analysis, selectionTool>>

NextInk ==
    \/ ApplyInk
    \/ (\E m \in {"inkblot", "both"} : SetMode(m)) /\ UNCHANGED retryVars

SpecInk == InitInk /\ [][NextInk]_vars

----------------------------------------------------------------------------
(* getOutlines over square buffers that hold a filled rectangle of one      *)
(* alpha, a whole buffer or nothing, with and without a selection: buffers  *)
(* of BufferSize pixels, and buffers of WideBufferSize pixels with room for *)
(* the blur around a rectangle.                                             *)

BufferSize == 32

WideBufferSize == 64

\* a rectangle of buffer pixels [x0, x1) x [y0, y1) and its alpha, in a
\* square buffer of size pixels
Rect(size, x0, x1, y0, y1, a) ==
    [size |-> size, x0 |-> x0, x1 |-> x1, y0 |-> y0, y1 |-> y1, a |-> a]

Rects ==
    LET B == BufferSize
    IN {Rect(B, 0, 0, 0, 0, 255),                  \* nothing
        Rect(B, 0, B, 0, B, 255),                  \* the whole buffer
        Rect(B, 4, B - 4, 4, B - 4, 255),          \* inside, large
        Rect(B, 2, B - 2, 2, B - 2, 255),
        Rect(B, 4, B - 4, 8, B - 8, 255),
        Rect(B, 4, B - 4, 4, B - 4, 128),          \* inside, large and faint
        Rect(B, 12, 20, 12, 20, 255),              \* inside, small
        Rect(B, B - 8, B, 0, B, 255),              \* the right edge
        Rect(B, 0, B, B - 8, B, 255),              \* the bottom edge
        Rect(B, 0, 8, 0, B, 255),                  \* the left edge
        Rect(B, 0, 16, 0, 16, 255),                \* the top-left quarter
        Rect(B, 16, B, 16, B, 255)}                \* the bottom-right quarter

WideRects ==
    LET B == WideBufferSize
    IN {Rect(B, 20, B - 20, 20, B - 20, 255),      \* inside, with room around it
        Rect(B, 16, B - 16, 22, B - 22, 255),
        Rect(B, B - 10, B, 0, B, 255)}             \* the right edge

RECURSIVE rectRow(_, _, _)
rectRow(r, y, acc) ==
    IF Len(acc) = r.size THEN acc
    ELSE rectRow(r, y, Append(acc, IF /\ Len(acc) >= r.x0 /\ Len(acc) < r.x1
                                      /\ y >= r.y0 /\ y < r.y1
                                     THEN r.a ELSE 0))

RECURSIVE rectRows(_, _)
rectRows(r, acc) ==
    IF Len(acc) = r.size THEN acc ELSE rectRows(r, Append(acc, rectRow(r, Len(acc), <<>>)))

\* the buffer once a pass has drawn r into it
BufferOf(r) == [width |-> r.size, height |-> r.size, alpha |-> rectRows(r, <<>>)]

Clip(minX, minY, maxX, maxY) == [minX |-> minX, minY |-> minY, maxX |-> maxX, maxY |-> maxY]

\* selections in container pixels: none, the whole map, its left half, a
\* corner, a rectangle whose scaled edges fall inside samples, one that
\* lies outside the map, and one at the map's right edge
Clips ==
    LET B == BufferSize
    IN {<<>>, <<Clip(0, 0, B, B)>>, <<Clip(0, 0, 16, B)>>, <<Clip(0, 0, 3, 3)>>,
        <<Clip(5, 5, B - 5, B - 5)>>, <<Clip(B + 8, B + 8, B + 18, B + 18)>>,
        <<Clip(B - 3, 8, B, B - 8)>>}

OutlineInputs == (Rects \X Clips) \cup (WideRects \X {<<>>})

\* the map whose container the buffer covers (_resetCanvas)
OutlineView(size) == [zoom |-> defaultZoom, origin |-> <<-100, 0>>, size |-> <<size, size>>]

InitOutline ==
    /\ InitApp
    /\ frames = <<>>
    /\ ink = <<>>
    /\ shape = <<>>
    /\ analysis = <<>>
    /\ selectionTool = <<>>
    /\ \E in \in OutlineInputs :
          /\ view = <<OutlineView(in[1].size)>>
          /\ extraction = <<[rect |-> in[1], buffer |-> BufferOf(in[1]), clip |-> in[2],
                              result |-> <<>>]>>

\* the selection is analysed: getOutlines runs over the buffer
Extract ==
    /\ extraction[1].result = <<>>
    /\ extraction' = <<[extraction[1] EXCEPT
                          !.result = <<getOutlines(extraction[1].buffer, extraction[1].clip,
                                                   view[1])>>]>>
    /\ last' = Step("getOutlines")
    /\ UNCHANGED <<cacheVars, appVars, retryVars, view, mode, status, ink, shape, analysis, selectionTool>>

NextOutline == Extract

SpecOutline == InitOutline /\ [][NextOutline]_vars

----------------------------------------------------------------------------
(* The body of the scan over one 2x2 block of a grid of two rows of        *)
(* samples, each sample at the threshold (outside) or above it (inside).   *)

CellCols == 3

CellAlpha == {threshold, 200}

RECURSIVE CellRows(_)
CellRows(n) ==
    IF n = 0 THEN {<<>>}
    ELSE {Append(r, a) : r \in CellRows(n - 1), a \in CellAlpha}

CellGrids == {<<top, bottom>> : top \in CellRows(CellCols), bottom \in CellRows(CellCols)}

InitCell ==
    /\ InitApp
    /\ frames = <<>>
    /\ view = <<>>
    /\ ink = <<>>
    /\ shape = <<>>
    /\ analysis = <<>>
    /\ selectionTool = <<>>
    /\ \E g \in CellGrids : extraction = <<[grid |-> g, x |-> 0, result |-> <<>>]>>

\* the block whose top-left sample is (x, 0) is visited, nothing emitted yet
ScanCell(x) ==
    /\ extraction[1].result = <<>>
    /\ LET b == firstBounds(CellCols, 2)
           o == [data |-> extraction[1].grid, smWidth |-> CellCols, smHeight |-> 2,
                 segments |-> <<>>, minX |-> b.minX, minY |-> b.minY,
                 maxX |-> b.maxX, maxY |-> b.maxY, hasShape |-> FALSE]
       IN extraction' = <<[extraction[1] EXCEPT !.x = x, !.result = <<cell(o, x, 0)>>]>>
    /\ last' = Step("cell")
    /\ UNCHANGED <<cacheVars, appVars, retryVars, view, mode, status, ink, shape, analysis, selectionTool>>

NextCell == \E x \in 0..(CellCols - 2) : ScanCell(x)

SpecCell == InitCell /\ [][NextCell]_vars

----------------------------------------------------------------------------
(* getState on a grid of samples below, at, just above and far above the   *)
(* threshold, asked for samples in the grid and one step beyond each side. *)

SampleCols == 2

SampleAlpha == {0, threshold, threshold + 1, 255}

RECURSIVE SampleRows(_)
SampleRows(n) ==
    IF n = 0 THEN {<<>>}
    ELSE {Append(r, a) : r \in SampleRows(n - 1), a \in SampleAlpha}

SampleGrids ==
    {<<top, bottom>> : top \in SampleRows(SampleCols), bottom \in SampleRows(SampleCols)}

InitSample ==
    /\ InitApp
    /\ frames = <<>>
    /\ view = <<>>
    /\ ink = <<>>
    /\ shape = <<>>
    /\ analysis = <<>>
    /\ selectionTool = <<>>
    /\ \E g \in SampleGrids : extraction = <<[grid |-> g, x |-> 0, y |-> 0, state |-> <<>>]>>

\* getState(x, y)
Sample(x, y) ==
    /\ extraction[1].state = <<>>
    /\ extraction' = <<[extraction[1] EXCEPT
                           !.x = x, !.y = y,
                           !.state = <<getState(extraction[1].grid, SampleCols, 2, x, y)>>]>>
    /\ last' = Step("getState")
    /\ UNCHANGED <<cacheVars, appVars, retryVars, view, mode, status, ink, shape, analysis, selectionTool>>

NextSample == \E x \in -1..SampleCols, y \in -1..2 : Sample(x, y)

SpecSample == InitSample /\ [][NextSample]_vars

----------------------------------------------------------------------------
(* ShapeAnalyzer                                                           *)
(*                                                                         *)
(* Coordinates are whole degrees.  A quotient is kept exactly as a pair    *)
(* num / den of non-negative integers: den = 0 with num > 0 is Infinity    *)
(* and 0 / 0 is NaN, as the division of the source yields them.  An icon   *)
(* is written as its code points.                                          *)

RorschachDictionary ==
    [round |-> <<
        [label |-> "MOON", icon |-> "U+1F311"],
        [label |-> "COIN", icon |-> "U+1FA99"],
        [label |-> "SHIELD", icon |-> "U+1F6E1 U+FE0F"],
        [label |-> "FACE", icon |-> "U+1F642"],
        [label |-> "PLANET", icon |-> "U+1FA90"],
        [label |-> "EGG", icon |-> "U+1F95A"],
        [label |-> "TURTLE", icon |-> "U+1F422"],
        [label |-> "BEETLE", icon |-> "U+1FAB2"],
        [label |-> "BALLOON", icon |-> "U+1F388"],
        [label |-> "PEARL", icon |-> "U+1F9AA"],
        [label |-> "BUBBLE", icon |-> "U+1FAE7"],
        [label |-> "MARBLE", icon |-> "U+1F52E"],
        [label |-> "YOLK", icon |-> "U+1F373"],
        [label |-> "DOME", icon |-> "U+1F3DB U+FE0F"],
        [label |-> "IGLOO", icon |-> "U+1F6D6"],
        [label |-> "JELLYFISH", icon |-> "U+1FABC"]
     >>,
     elongated |-> <<
        [label |-> "SNAKE", icon |-> "U+1F40D"],
        [label |-> "RIVER", icon |-> "U+1F30A"],
        [label |-> "WORM", icon |-> "U+1FAB1"],
        [label |-> "SWORD", icon |-> "U+2694 U+FE0F"],
        [label |-> "LIGHTNING", icon |-> "U+26A1"],
        [label |-> "DNA", icon |-> "U+1F9EC"],
        [label |-> "GIRAFFE", icon |-> "U+1F992"],
        [label |-> "VINE", icon |-> "U+1F33F"],
        [label |-> "COMET", icon |-> "U+2604 U+FE0F"],
        [label |-> "TOWER", icon |-> "U+1F5FC"],
        [label |-> "CIGAR", icon |-> "U+1F6AC"],
        [label |-> "FLUTE", icon |-> "U+1FA88"],
        [label |-> "ICICLE", icon |-> "U+1F9CA"],
        [label |-> "NEEDLE", icon |-> "U+1FAA1"],
        [label |-> "OBELISK", icon |-> "U+1F5FF"],
        [label |-> "STREAM", icon |-> "U+1F4A7"]
     >>,
     spiky |-> <<
        [label |-> "EXPLOSION", icon |-> "U+1F4A5"],
        [label |-> "MONSTER", icon |-> "U+1F479"],
        [label |-> "SPLASH", icon |-> "U+1F4A6"],
        [label |-> "TREE", icon |-> "U+1F332"],
        [label |-> "DRAGON", icon |-> "U+1F409"],
        [label |-> "CROWN", icon |-> "U+1F451"],
        [label |-> "CACTUS", icon |-> "U+1F335"],
        [label |-> "STAR", icon |-> "U+2B50"],
        [label |-> "DEMON", icon |-> "U+1F47F"],
        [label |-> "SHARD", icon |-> "U+1F48E"],
        [label |-> "THORN", icon |-> "U+1F339"],
        [label |-> "SHURIKEN", icon |-> "U+1F4A0"],
        [label |-> "URCHIN", icon |-> "U+1F994"],
        [label |-> "MACE", icon |-> "U+1F528"],
        [label |-> "CRACK", icon |-> "U+1F3DA U+FE0F"]
     >>,
     tiny |-> <<
        [label |-> "BUG", icon |-> "U+1FAB2"],
        [label |-> "DOT", icon |-> "U+26AB"],
        [label |-> "PEBBLE", icon |-> "U+1FAA8"],
        [label |-> "SEED", icon |-> "U+1F331"],
        [label |-> "ANT", icon |-> "U+1F41C"],
        [label |-> "BERRY", icon |-> "U+1FAD0"],
        [label |-> "ATOM", icon |-> "U+269B U+FE0F"],
        [label |-> "SPECK", icon |-> "U+1F32B U+FE0F"],
        [label |-> "CRUMB", icon |-> "U+1F36A"],
        [label |-> "PIXEL", icon |-> "U+1F47E"],
        [label |-> "FLEA", icon |-> "U+1F997"],
        [label |-> "SPARK", icon |-> "U+2728"],
        [label |-> "DROPLET", icon |-> "U+1F4A7"]
     >>,
     huge |-> <<
        [label |-> "WHALE", icon |-> "U+1F40B"],
        [label |-> "MOUNTAIN", icon |-> "U+26F0 U+FE0F"],
        [label |-> "TITAN", icon |-> "U+1F5FF"],
        [label |-> "FOREST", icon |-> "U+1F333"],
        [label |-> "CITY", icon |-> "U+1F3D9 U+FE0F"],
        [label |-> "ELEPHANT", icon |-> "U+1F418"],
        [label |-> "GALAXY", icon |-> "U+1F30C"],
        [label |-> "LEVIATHAN", icon |-> "U+1F991"],
        [label |-> "KAIJU", icon |-> "U+1F996"],
        [label |-> "ASTEROID", icon |-> "U+2604 U+FE0F"],
        [label |-> "CONTINENT", icon |-> "U+1F5FA U+FE0F"],
        [label |-> "GLACIER", icon |-> "U+2744 U+FE0F"],
        [label |-> "MONOLITH", icon |-> "U+2B1B"]
     >>,
     generic |-> <<
        [label |-> "RABBIT", icon |-> "U+1F430"],
        [label |-> "BUTTERFLY", icon |-> "U+1F98B"],
        [label |-> "GHOST", icon |-> "U+1F47B"],
        [label |-> "SKULL", icon |-> "U+1F480"],
        [label |-> "BIRD", icon |-> "U+1F426"],
        [label |-> "FISH", icon |-> "U+1F41F"],
        [label |-> "BAT", icon |-> "U+1F987"],
        [label |-> "MASK", icon |-> "U+1F3AD"],
        [label |-> "INKBLOT", icon |-> "U+1F3A8"],
        [label |-> "SHADOW", icon |-> "U+1F464"],
        [label |-> "STAIN", icon |-> "U+2615"],
        [label |-> "SILHOUETTE", icon |-> "U+1F465"],
        [label |-> "PHANTOM", icon |-> "U+1F47B"],
        [label |-> "MIRAGE", icon |-> "U+1F3DD U+FE0F"],
        [label |-> "ECHO", icon |-> "U+1F50A"]
     >>]

\* the adjectives of each branch of the decision tree
adjectives ==
    [tiny |-> <<"TINY", "LITTLE", "SMALL", "MICRO">>,
     huge |-> <<"GIANT", "MASSIVE", "COLOSSAL", "MEGA">>,
     elongated |-> <<"LONG", "STRETCHED", "TALL", "THIN">>,
     spiky |-> <<"JAGGED", "TWISTED", "SHARP", "SPIKY">>,
     round |-> <<"ROUND", "SMOOTH", "SOFT", "CURVED">>]

\* Math.sqrt: exact over the squares, and the whole part of the root
\* elsewhere
sqrt(n) == CHOOSE r \in 0..n : r * r <= n /\ n < (r + 1) * (r + 1)

\* q < n / d and q > n / d for a quotient q; every comparison with NaN is
\* false, Infinity is above every number
less(q, n, d) == q.den # 0 /\ q.num * d < n * q.den

greater(q, n, d) == IF q.den = 0 THEN q.num > 0 ELSE q.num * d > n * q.den

\* the forEach over blob.segments: the box and the perimeter so far
RECURSIVE measure(_, _, _)
measure(segments, i, acc) ==
    \* (the test of acc's domain is never true: it has TLC evaluate the
    \* accumulator at every turn of the loop instead of nesting the turns)
    IF i > Len(segments) \/ DOMAIN acc = {} THEN acc
    ELSE LET p1 == segments[i][1]
             p2 == segments[i][2]
             dLat == p2.lat - p1.lat
             dLng == p2.lng - p1.lng
         IN measure(segments, i + 1,
                    [minLat |-> Min3(acc.minLat, p1.lat, p2.lat),
                     maxLat |-> Max3(acc.maxLat, p1.lat, p2.lat),
                     minLng |-> Min3(acc.minLng, p1.lng, p2.lng),
                     maxLng |-> Max3(acc.maxLng, p1.lng, p2.lng),
                     perimeter |-> acc.perimeter + sqrt((dLat * dLat) + (dLng * dLng))])

\* the metrics as they would be with a default of 0 for normalizedMagnitude
metricsOfDefaultZero(blob, viewBounds) ==
    LET m == measure(blob.segments, 1,
                     [minLat |-> 90, maxLat |-> -90, minLng |-> 180, maxLng |-> -180,
                      perimeter |-> 0])
        latSpan == m.maxLat - m.minLat
        lngSpan == m.maxLng - m.minLng
        boxPerimeter == 2 * (latSpan + lngSpan)
        magnitude == sqrt((latSpan * latSpan) + (lngSpan * lngSpan))
    IN [magnitude |-> magnitude,
        normalizedMagnitude |->
            IF viewBounds # <<>>
              THEN LET viewLatSpan == viewBounds[1].north - viewBounds[1].south
                       viewLngSpan == viewBounds[1].east - viewBounds[1].west
                       viewDiagonal == sqrt((viewLatSpan * viewLatSpan)
                                               + (viewLngSpan * viewLngSpan))
                   IN [num |-> magnitude, den |-> viewDiagonal]
              ELSE [num |-> 0, den |-> 1],
        aspectRatio |-> [num |-> Max(latSpan, lngSpan), den |-> Min(latSpan, lngSpan)],
        ruggedness |-> [num |-> m.perimeter, den |-> boxPerimeter]]

\* the metrics of a blob against the view bounds, if any
metricsOf(blob, viewBounds) ==
    LET m == measure(blob.segments, 1,
                     [minLat |-> 90, maxLat |-> -90, minLng |-> 180, maxLng |-> -180,
                      perimeter |-> 0])
        latSpan == m.maxLat - m.minLat
        lngSpan == m.maxLng - m.minLng
        boxPerimeter == 2 * (latSpan + lngSpan)
        magnitude == sqrt((latSpan * latSpan) + (lngSpan * lngSpan))
    IN [magnitude |-> magnitude,
        normalizedMagnitude |->
            IF viewBounds # <<>>
              THEN LET viewLatSpan == viewBounds[1].north - viewBounds[1].south
                       viewLngSpan == viewBounds[1].east - viewBounds[1].west
                       viewDiagonal == sqrt((viewLatSpan * viewLatSpan)
                                               + (viewLngSpan * viewLngSpan))
                   IN [num |-> magnitude, den |-> viewDiagonal]
              ELSE [num |-> 1, den |-> 2],
        aspectRatio |-> [num |-> Max(latSpan, lngSpan), den |-> Min(latSpan, lngSpan)],
        ruggedness |-> [num |-> m.perimeter, den |-> boxPerimeter]]

\* the decision tree as it would be with the aspect test first
categoryAspectFirst(normalizedMagnitude, aspectRatio, ruggedness) ==
    IF greater(aspectRatio, 5, 2) THEN "elongated"
    ELSE IF less(normalizedMagnitude, 1, 10) THEN "tiny"
    ELSE IF greater(normalizedMagnitude, 6, 10) THEN "huge"
    ELSE IF greater(ruggedness, 3, 2) THEN "spiky"
    ELSE "round"

\* the decision tree as it would be with <= 0.1 and >= 0.6
categoryClosedTests(normalizedMagnitude, aspectRatio, ruggedness) ==
    IF normalizedMagnitude.den # 0
          /\ normalizedMagnitude.num * 10 <= normalizedMagnitude.den THEN "tiny"
    ELSE IF normalizedMagnitude.den = 0
               \/ normalizedMagnitude.num * 10 >= 6 * normalizedMagnitude.den THEN "huge"
    ELSE IF greater(aspectRatio, 5, 2) THEN "elongated"
    ELSE IF greater(ruggedness, 3, 2) THEN "spiky"
    ELSE "round"

\* the decision tree as it would be if round were tested too (ruggedness
\* <= 1.5) and the initial category kept otherwise
categoryKeepsGeneric(normalizedMagnitude, aspectRatio, ruggedness) ==
    IF less(normalizedMagnitude, 1, 10) THEN "tiny"
    ELSE IF greater(normalizedMagnitude, 6, 10) THEN "huge"
    ELSE IF greater(aspectRatio, 5, 2) THEN "elongated"
    ELSE IF greater(ruggedness, 3, 2) THEN "spiky"
    ELSE IF ruggedness.den # 0 /\ 2 * ruggedness.num <= 3 * ruggedness.den THEN "round"
    ELSE "generic"

\* the decision tree
categoryOf(normalizedMagnitude, aspectRatio, ruggedness) ==
    IF less(normalizedMagnitude, 1, 10) THEN "tiny"
    ELSE IF greater(normalizedMagnitude, 6, 10) THEN "huge"
    ELSE IF greater(aspectRatio, 5, 2) THEN "elongated"
    ELSE IF greater(ruggedness, 3, 2) THEN "spiky"
    ELSE "round"

\* table[Math.floor(Math.random() * table.length)], the draw being u / grain
pick(table, u, grain) == table[((u * Len(table)) \div grain) + 1]

\* analyze as it would be if the item came from the table of the initial
\* category
analyzePicksGeneric(blob, viewBounds, u1, u2, grain) ==
    IF blob = <<>> \/ Len(blob[1].segments) = 0 THEN <<>>
    ELSE LET m == metricsOf(blob[1], viewBounds)
             category == categoryOf(m.normalizedMagnitude, m.aspectRatio, m.ruggedness)
             adjective == pick(adjectives[category], u1, grain)
             result == pick(RorschachDictionary["generic"], u2, grain)
         IN <<[label |-> result.label, icon |-> result.icon, adjective |-> adjective,
               metrics |-> m @@ [category |-> category]]>>

\* analyze as it would be with categoryKeepsGeneric for its decision tree:
\* category starts as 'generic' and adjective as the empty string
analyzeKeepsGeneric(blob, viewBounds, u1, u2, grain) ==
    IF blob = <<>> \/ Len(blob[1].segments) = 0 THEN <<>>
    ELSE LET m == metricsOf(blob[1], viewBounds)
             category == categoryKeepsGeneric(m.normalizedMagnitude, m.aspectRatio,
                                              m.ruggedness)
             adjective == IF category = "generic" THEN ""
                          ELSE pick(adjectives[category], u1, grain)
             result == pick(RorschachDictionary[category], u2, grain)
         IN <<[label |-> result.label, icon |-> result.icon, adjective |-> adjective,
               metrics |-> m @@ [category |-> category]]>>

\* analyze as it would be if a draw decided between two branches
analyzeDrawsCategory(blob, viewBounds, u1, u2, grain) ==
    IF blob = <<>> \/ Len(blob[1].segments) = 0 THEN <<>>
    ELSE LET m == metricsOf(blob[1], viewBounds)
             c == categoryOf(m.normalizedMagnitude, m.aspectRatio, m.ruggedness)
             category == IF c = "round" /\ 2 * u1 >= grain THEN "spiky" ELSE c
             adjective == pick(adjectives[category], u1, grain)
             result == pick(RorschachDictionary[category], u2, grain)
         IN <<[label |-> result.label, icon |-> result.icon, adjective |-> adjective,
               metrics |-> m @@ [category |-> category]]>>

\* ShapeAnalyzer.analyze; u1 and u2 are the two draws, in grain-ths
analyze(blob, viewBounds, u1, u2, grain) ==
    IF blob = <<>> \/ Len(blob[1].segments) = 0 THEN <<>>
    ELSE LET m == metricsOf(blob[1], viewBounds)
             category == categoryOf(m.normalizedMagnitude, m.aspectRatio, m.ruggedness)
             adjective == pick(adjectives[category], u1, grain)
             result == pick(RorschachDictionary[category], u2, grain)
         IN <<[label |-> result.label, icon |-> result.icon, adjective |-> adjective,
               metrics |-> m @@ [category |-> category]]>>

----------------------------------------------------------------------------
(* ShapeAnalyzer.analyze over blobs with whole lengths: the outline of a   *)
(* box, crossed by a number of strokes along its diagonal, at two places,  *)
(* against no view bounds and against view bounds of several sizes.        *)

RandomGrain == 16
MaxStrokes == 3

Seg(a1, g1, a2, g2) == <<[lat |-> a1, lng |-> g1], [lat |-> a2, lng |-> g2]>>

Outline(a, g, h, w) ==
    <<Seg(a, g, a, g + w), Seg(a, g + w, a + h, g + w),
      Seg(a + h, g + w, a + h, g), Seg(a + h, g, a, g)>>

RECURSIVE Strokes(_, _, _)
Strokes(segments, seg, k) ==
    IF k = 0 THEN segments ELSE Strokes(Append(segments, seg), seg, k - 1)

\* the spans (lat, lng) of the boxes: a point, lines, and boxes whose
\* diagonal is whole
Spans == {<<0, 0>>, <<0, 5>>, <<5, 0>>, <<3, 4>>, <<4, 3>>, <<6, 8>>, <<7, 24>>, <<24, 7>>,
          <<18, 24>>, <<30, 40>>, <<21, 72>>}

Places == {<<0, 0>>, <<-10, -20>>}

Blobs ==
    {<<>>, <<[segments |-> <<>>, center |-> [lat |-> 0, lng |-> 0]]>>}
       \cup {<<[segments |-> Strokes(Outline(p[1], p[2], s[1], s[2]),
                                     Seg(p[1], p[2], p[1] + s[1], p[2] + s[2]), k),
                center |-> [lat |-> p[1], lng |-> p[2]]]>> :
               p \in Places, s \in Spans, k \in 0..MaxStrokes}

ViewBounds(south, west, latSpan, lngSpan) ==
    [south |-> south, north |-> south + latSpan, west |-> west, east |-> west + lngSpan]

ViewBoundsSet == {<<>>, <<ViewBounds(-20, -30, 30, 40)>>, <<ViewBounds(-30, -40, 60, 80)>>,
                  <<ViewBounds(-40, -50, 75, 100)>>, <<ViewBounds(-70, -100, 150, 200)>>}

InitShape ==
    /\ InitApp
    /\ frames = <<>>
    /\ view = <<>>
    /\ ink = <<>>
    /\ extraction = <<>>
    /\ analysis = <<>>
    /\ selectionTool = <<>>
    /\ \E b \in Blobs, v \in ViewBoundsSet :
          shape = <<[blob |-> b, viewBounds |-> v, ran |-> FALSE, result |-> <<>>]>>

\* the blob is analysed, with two draws of Math.random
Analyze(u1, u2) ==
    /\ ~shape[1].ran
    /\ shape' = <<[shape[1] EXCEPT
                     !.ran = TRUE,
                     !.result = analyze(shape[1].blob, shape[1].viewBounds, u1, u2,
                                        RandomGrain)]>>
    /\ last' = Step("analyze")
    /\ UNCHANGED <<cacheVars, appVars, retryVars, view, mode, status, ink, extraction, analysis, selectionTool>>

NextShape == \E u1, u2 \in 0..(RandomGrain - 1) : Analyze(u1, u2)

SpecShape == InitShape /\ [][NextShape]_vars

----------------------------------------------------------------------------
(* ShapeAnalyzer.analyze called twice for the same blob and view bounds,   *)
(* each call with its own draws.                                           *)

TwiceSpans == {<<0, 0>>, <<3, 4>>, <<7, 24>>, <<30, 40>>}

TwiceBlobs ==
    {<<>>} \cup {<<[segments |-> Strokes(Outline(0, 0, s[1], s[2]),
                                         Seg(0, 0, s[1], s[2]), k),
                    center |-> [lat |-> 0, lng |-> 0]]>> :
                   s \in TwiceSpans, k \in {0, MaxStrokes}}

TwiceViews == {<<>>, <<ViewBounds(-20, -30, 30, 40)>>}

InitTwice ==
    /\ InitApp
    /\ frames = <<>>
    /\ view = <<>>
    /\ ink = <<>>
    /\ extraction = <<>>
    /\ analysis = <<>>
    /\ selectionTool = <<>>
    /\ \E b \in TwiceBlobs, v \in TwiceViews :
          shape = <<[blob |-> b, viewBounds |-> v, ran |-> FALSE, result |-> <<>>,
                     ranAgain |-> FALSE, again |-> <<>>]>>

\* the same blob is analysed once more
AnalyzeAgain(u1, u2) ==
    /\ shape[1].ran
    /\ ~shape[1].ranAgain
    /\ shape' = <<[shape[1] EXCEPT
                     !.ranAgain = TRUE,
                     !.again = analyze(shape[1].blob, shape[1].viewBounds, u1, u2,
                                       RandomGrain)]>>
    /\ last' = Step("analyze")
    /\ UNCHANGED <<cacheVars, appVars, retryVars, view, mode, status, ink, extraction, analysis, selectionTool>>

NextTwice ==
    \/ \E u1, u2 \in 0..(RandomGrain - 1) : Analyze(u1, u2)
    \/ \E u1, u2 \in 0..(RandomGrain - 1) : AnalyzeAgain(u1, u2)

SpecTwice == InitTwice /\ [][NextTwice]_vars

----------------------------------------------------------------------------
(* identifyObject and the analyses it schedules.  The layer's buffer, the  *)
(* selection, the analysis card and the API key are as the user left them. *)
(* A timeout is a record of its kind and of what its callback captured;    *)
(* the request to the namer is in flight until a response arrives, if one  *)
(* ever does.                                                              *)

MaxScans == 1
AnalysisGrain == 2

\* what the namer's endpoint can answer: a rejected fetch, a body that is
\* not JSON, an error document, a document without candidates, with an
\* empty candidates list, with a candidate without content, with a content
\* without parts, and a noun
FailedResponses ==
    {"rejected", "invalidJson", "error", "noCandidates", "emptyCandidates", "noContent",
     "noParts"}

Responses == FailedResponses \cup {"DRAGON", "RABBIT"}

\* the map around latitude 0 and longitude 0, in the unit of
\* containerPointToLatLng
AnalysisView(size) ==
    [zoom |-> defaultZoom, origin |-> <<-(size \div 2), -(size \div 2)>>, size |-> <<size, size>>]

\* map.getBounds(), in the unit of containerPointToLatLng
getBounds(map) ==
    LET nw == containerPointToLatLng(map, <<0, 0>>)
        se == containerPointToLatLng(map, <<Px * map.size[1], Px * map.size[2]>>)
    IN [south |-> se.lat, north |-> nw.lat, west |-> nw.lng, east |-> se.lng]

\* what the layer's buffer holds and what the user selected
AnalysisInputs ==
    LET B == BufferSize
    IN {Rect(B, 0, 0, 0, 0, 255), Rect(B, 4, B - 4, 4, B - 4, 255)}
          \X {<<>>, <<Clip(0, 0, 3, 3)>>, <<Clip(0, 0, B, B)>>}

\* getOutlines is a function of the buffer, the selection and the map, and
\* analyze one of the blob, the view bounds and the two draws: what they
\* return on the inputs above is computed once and looked up by the
\* handlers that call them
AnalysisExtractions ==
    {[buffer |-> BufferOf(in[1]), selection |-> in[2], map |-> AnalysisView(in[1].size),
      outlines |-> getOutlines(BufferOf(in[1]), in[2], AnalysisView(in[1].size))] :
        in \in AnalysisInputs}

\* this.rorschachLayer.getOutlines(clippingBounds)
outlinesOf(buffer, selection, map) ==
    (CHOOSE e \in AnalysisExtractions :
        e.buffer = buffer /\ e.selection = selection /\ e.map = map).outlines

AnalysisResults ==
    {[blob |-> in[1].outlines.blob, map |-> in[1].map, u1 |-> in[2], u2 |-> in[3],
      result |-> analyze(in[1].outlines.blob, <<getBounds(in[1].map)>>, in[2], in[3],
                         AnalysisGrain)] :
        in \in {e \in AnalysisExtractions : e.outlines.blob # <<>>}
                  \X (0..(AnalysisGrain - 1)) \X (0..(AnalysisGrain - 1))}

\* ShapeAnalyzer.analyze(blob, this.map.getBounds())
analysisOf(blob, map, u1, u2) ==
    (CHOOSE r \in AnalysisResults :
        r.blob = blob /\ r.map = map /\ r.u1 = u1 /\ r.u2 = u2).result

Timeout(a, kind, blob, result) ==
    [id |-> a.nextId, kind |-> kind, blob |-> blob, result |-> result]

\* setTimeout(callback, delay)
setTimeout(a, kind, blob, result) ==
    [a EXCEPT !.timeouts = @ \cup {Timeout(a, kind, blob, result)}, !.nextId = @ + 1]

\* what a handler leaves: the analysis state and what the page shows
Shown(a, st, err) == [a |-> a, status |-> st, errorShown |-> err]

\* analyzeLocal as it would be without the timeout that resets the status
analyzeLocalWithoutReset(a, err) ==
    LET blob == outlinesOf(a.buffer, a.selection, view[1]).blob
        ran == [a EXCEPT !.localRuns = @ + 1]
    IN IF blob = <<>>
         THEN Shown(ran, "NO SHAPE DETECTED", err)
         ELSE Shown(setTimeout(ran, "localResult", blob, <<>>), "ANALYZING...", err)

\* analyzeLocal, up to its return
analyzeLocal(a, err) ==
    LET blob == outlinesOf(a.buffer, a.selection, view[1]).blob
        ran == [a EXCEPT !.localRuns = @ + 1]
    IN IF blob = <<>>
         THEN Shown(setTimeout(ran, "statusReset", <<>>, <<>>), "NO SHAPE DETECTED", err)
         ELSE Shown(setTimeout(ran, "localResult", blob, <<>>), "ANALYZING...", err)

\* the catch block of analyzeWithGemini: showError, then the local
\* analysis in 3000 ms
namerFailed(a, message) ==
    Shown(setTimeout(a, "fallback", <<>>, <<>>), "ERROR", message)

\* analyzeWithGemini, up to its first await or its return; tainted says
\* whether toDataURL throws
analyzeWithGemini(a, st, err, tainted) ==
    IF ~a.apiKey
      THEN Shown([a EXCEPT !.alerts = @ + 1], st, err)
      ELSE LET blob == outlinesOf(a.buffer, a.selection, view[1]).blob
           IN IF (blob = <<>> \/ Len(blob[1].segments) = 0) /\ a.selection = <<>>
                THEN Shown(setTimeout(a, "statusReset", <<>>, <<>>), "NO SHAPE DETECTED", err)
                ELSE IF tainted
                  THEN namerFailed(a, "API ERROR: Security Error: Canvas Tainted. CORS missing?")
                  ELSE Shown([a EXCEPT !.requests = @ \cup {[id |-> a.nextId, blob |-> blob]},
                                       !.nextId = @ + 1],
                             "GEMINI VISION...", err)

\* closeHandler of an interpretation, when the overlay is displayed
closeHandler(a, kind) ==
    IF ~a.overlay.display THEN a
    ELSE [a EXCEPT !.overlay = [@ EXCEPT !.display = FALSE],
                   !.onMap = IF kind = "closeLocal" THEN @ \ {l \in @ : <<l>> = a.outlineLayer}
                             ELSE @ \ {l \in @ : <<l>> = a.sketchLayer},
                   !.canvasOutlines = IF kind = "closeCloud" THEN <<>> ELSE @,
                   !.sketchLayer = IF kind = "closeCloud" THEN <<>> ELSE @,
                   !.outlineLayer = <<>>]

\* showInterpretation(blob, result)
showInterpretation(a, blob, result) ==
    LET layer == [id |-> a.nextId, kind |-> "outline"]
        article == IF "adjective" \in DOMAIN result
                       /\ result.adjective \in {"ACUTE", "ELONGATED", "IRREGULAR", "OVAL"}
                     THEN "AN" ELSE "A"
        shown == [a EXCEPT !.outlineLayer = <<layer>>,
                           !.onMap = @ \cup {layer},
                           !.nextId = @ + 1,
                           !.overlay = [display |-> TRUE, kind |-> "local",
                                        icon |-> result.icon, label |-> result.label,
                                        article |-> article,
                                        adjective |-> IF "adjective" \in DOMAIN result
                                                        THEN result.adjective ELSE ""]]
    IN setTimeout(shown, "closeLocal", <<>>, <<>>)

\* showCloudInterpretation(blob, result), for a blob
showCloudInterpretation(a, blob, result) ==
    LET outlined == IF Len(blob.segments) > 0
                      THEN [a EXCEPT !.canvasOutlines = <<blob.segments>>] ELSE a
        layer == [id |-> a.nextId, kind |-> "sketch"]
        sketched == IF result.img # <<>>
                      THEN [outlined EXCEPT !.sketchLayer = <<layer>>,
                                            !.onMap = @ \cup {layer},
                                            !.nextId = @ + 1]
                      ELSE outlined
        shown == [sketched EXCEPT !.overlay = [display |-> TRUE, kind |-> "cloud",
                                               icon |-> result.icon, label |-> result.label,
                                               article |-> "A", adjective |-> ""]]
    IN setTimeout(shown, "closeCloud", <<>>, <<>>)

\* the asset matched to the noun, if any
generatedImage(noun) ==
    IF noun \in {"RABBIT", "BUNNY"} THEN <<"assets/sketch_rabbit.png">>
    ELSE IF noun \in {"SKULL", "HEAD"} THEN <<"assets/sketch_skull.png">>
    ELSE IF noun \in {"BUTTERFLY", "MOTH"} THEN <<"assets/sketch_butterfly.png">>
    ELSE <<>>

\* the message of the error thrown on a response that names nothing
errorMessage(response) ==
    CASE response = "rejected" -> "Failed to fetch"
      [] response = "invalidJson" -> "Unexpected token < in JSON at position 0"
      [] response = "error" -> "API key not valid"
      [] response \in {"noCandidates", "noContent"} -> "Vision API returned no content"
      [] response = "emptyCandidates" -> "Cannot read properties of undefined (reading 'content')"
      [] response = "noParts" -> "Cannot read properties of undefined (reading '0')"

\* identifyObject, while fewer than max scans were started
ScanUpTo(max) ==
    /\ analysis[1].scans < max
    /\ mode' = IF mode = "radar" THEN "inkblot" ELSE mode
    /\ LET a == analysis[1]
           cleared == [a EXCEPT !.scans = @ + 1,
                                !.overlay = [display |-> TRUE, kind |-> "loading",
                                             icon |-> "U+2699 U+FE0F", label |-> "",
                                             article |-> "", adjective |-> ""],
                                !.onMap = {l \in @ : <<l>> # a.outlineLayer
                                                       /\ <<l>> # a.sketchLayer},
                                !.outlineLayer = <<>>,
                                !.sketchLayer = <<>>,
                                !.canvasOutlines = <<>>]
       IN analysis' = <<setTimeout(cleared, "dispatch", <<>>, <<>>)>>
    /\ last' = Step("identifyObject")
    /\ UNCHANGED <<cacheVars, appVars, retryVars, view, status, ink, extraction, shape,
                   selectionTool>>

\* the Initiate Scan button
IdentifyObject == ScanUpTo(MaxScans)

Without(a, t) == [a EXCEPT !.timeouts = @ \ {t}]

\* what the analysis handlers leave alone
AnalysisFrame ==
    UNCHANGED <<cacheVars, frames, currentFrameIndex, layerFrame, fallback, isPlaying,
                timers, playInterval, radarLoaded, retryVars, view, mode, ink, extraction,
                shape, selectionTool>>

Leaves(r) ==
    /\ analysis' = <<r.a>>
    /\ status' = r.status
    /\ errorShown' = r.errorShown

\* the timeout of identifyObject fires: the chosen analysis starts
Dispatch(t, tainted) ==
    /\ t \in analysis[1].timeouts /\ t.kind = "dispatch"
    /\ IF analysis[1].analysisMode = "cloud"
         THEN /\ Leaves(analyzeWithGemini(Without(analysis[1], t), status, errorShown, tainted))
              /\ last' = Step("analyzeWithGemini")
         ELSE /\ ~tainted
              /\ Leaves(analyzeLocal(Without(analysis[1], t), errorShown))
              /\ last' = Step("analyzeLocal")
    /\ AnalysisFrame

\* the namer's response arrives, and the function runs on to its next
\* await or into its catch block
Respond(req, response) ==
    /\ req \in analysis[1].requests
    /\ LET a == [analysis[1] EXCEPT !.requests = @ \ {req}]
       IN IF response \in FailedResponses
            THEN Leaves(namerFailed(a, "API ERROR: " \o errorMessage(response)))
            ELSE Leaves(Shown(setTimeout(a, "generated", req.blob,
                                         <<[label |-> response, icon |-> "U+2728",
                                            img |-> generatedImage(response)]>>),
                              "GENERATING IMAGE...", errorShown))
    /\ last' = [Step("response") EXCEPT !.feed = <<response>>]
    /\ AnalysisFrame

\* the 1500 ms of the image generation are over: the result is shown, or
\* showCloudInterpretation throws on a missing blob
Generated(t) ==
    /\ t \in analysis[1].timeouts /\ t.kind = "generated"
    /\ LET a == Without(analysis[1], t)
       IN IF t.blob = <<>>
            THEN Leaves(namerFailed(a, "API ERROR: Cannot read properties of null (reading 'center')"))
            ELSE Leaves(Shown(showCloudInterpretation(a, t.blob[1], t.result[1]),
                              "ANALYSIS COMPLETE", errorShown))
    /\ last' = Step("generated")
    /\ AnalysisFrame

\* the 3000 ms after a failure of the namer are over: analyzeLocal
Fallback(t) ==
    /\ t \in analysis[1].timeouts /\ t.kind = "fallback"
    /\ Leaves(analyzeLocal(Without(analysis[1], t), errorShown))
    /\ last' = Step("analyzeLocal")
    /\ AnalysisFrame

\* the 800 ms of the local analysis are over: the blob is classified and
\* the interpretation shown
LocalResult(t, u1, u2) ==
    /\ t \in analysis[1].timeouts /\ t.kind = "localResult"
    /\ LET a == Without(analysis[1], t)
           analyzed == analysisOf(t.blob, view[1], u1, u2)
           result == IF analyzed = <<>> THEN [label |-> "UNKNOWN", icon |-> "U+2753"]
                     ELSE analyzed[1]
       IN Leaves(Shown(showInterpretation([a EXCEPT !.classified = @ + 1], t.blob[1], result),
                       "ANALYSIS COMPLETE", errorShown))
    /\ last' = Step("localResult")
    /\ AnalysisFrame

\* the 2000 ms after NO SHAPE DETECTED are over
StatusReset(t) ==
    /\ t \in analysis[1].timeouts /\ t.kind = "statusReset"
    /\ Leaves(Shown(Without(analysis[1], t), "ONLINE", errorShown))
    /\ last' = Step("statusReset")
    /\ AnalysisFrame

\* the auto-close of an interpretation fires
AutoClose(t) ==
    /\ t \in analysis[1].timeouts /\ t.kind \in {"closeLocal", "closeCloud"}
    /\ Leaves(Shown(closeHandler(Without(analysis[1], t), t.kind), status, errorShown))
    /\ last' = Step("autoClose")
    /\ AnalysisFrame

InitAnalysis ==
    /\ InitApp
    /\ frames = <<>>
    /\ ink = <<>>
    /\ extraction = <<>>
    /\ shape = <<>>
    /\ selectionTool = <<>>
    /\ \E in \in AnalysisInputs, m \in {"local", "cloud"}, key \in BOOLEAN :
          /\ view = <<AnalysisView(in[1].size)>>
          /\ analysis = <<[analysisMode |-> m, apiKey |-> key, selection |-> in[2],
                           buffer |-> BufferOf(in[1]), scans |-> 0, nextId |-> 1,
                           timeouts |-> {}, requests |-> {}, alerts |-> 0,
                           localRuns |-> 0, classified |-> 0,
                           overlay |-> [display |-> FALSE, kind |-> "none", icon |-> "",
                                        label |-> "", article |-> "", adjective |-> ""],
                           onMap |-> {}, outlineLayer |-> <<>>, sketchLayer |-> <<>>,
                           canvasOutlines |-> <<>>]>>

Timeouts == IF analysis = <<>> THEN {} ELSE analysis[1].timeouts

NextAnalysis ==
    \/ IdentifyObject
    \/ \E t \in Timeouts, tainted \in BOOLEAN : Dispatch(t, tainted)
    \/ \E req \in analysis[1].requests, response \in Responses : Respond(req, response)
    \/ \E t \in Timeouts : Generated(t)
    \/ \E t \in Timeouts : Fallback(t)
    \/ \E t \in Timeouts, u1, u2 \in 0..(AnalysisGrain - 1) : LocalResult(t, u1, u2)
    \/ \E t \in Timeouts : StatusReset(t)
    \/ \E t \in Timeouts : AutoClose(t)

\* every timeout fires when its delay is over
TimeoutFires ==
    \/ \E t \in Timeouts, tainted \in BOOLEAN : Dispatch(t, tainted)
    \/ \E t \in Timeouts : Generated(t)
    \/ \E t \in Timeouts : Fallback(t)
    \/ \E t \in Timeouts, u1, u2 \in 0..(AnalysisGrain - 1) : LocalResult(t, u1, u2)
    \/ \E t \in Timeouts : StatusReset(t)
    \/ \E t \in Timeouts : AutoClose(t)

\* Timeouts fire, whereas nothing makes the namer answer: fetch is given no
\* signal that would abort it.
SpecAnalysis == InitAnalysis /\ [][NextAnalysis]_vars /\ WF_vars(TimeoutFires)

----------------------------------------------------------------------------
(* Local scans that follow one another, on a map whose layer is rendered:  *)
(* the Initiate Scan button stays enabled while a scan is under way and    *)
(* while an interpretation is shown.                                       *)

MaxRescans == 2

\* the Initiate Scan button, pressed again
Rescan == ScanUpTo(MaxRescans)

InitScans ==
    /\ InitApp
    /\ frames = <<>>
    /\ ink = <<>>
    /\ extraction = <<>>
    /\ shape = <<>>
    /\ selectionTool = <<>>
    /\ \E in \in {i \in AnalysisInputs : i[2] = <<>>} :
          /\ view = <<AnalysisView(in[1].size)>>
          /\ analysis = <<[analysisMode |-> "local", apiKey |-> FALSE, selection |-> <<>>,
                           buffer |-> BufferOf(in[1]), scans |-> 0, nextId |-> 1,
                           timeouts |-> {}, requests |-> {}, alerts |-> 0,
                           localRuns |-> 0, classified |-> 0,
                           overlay |-> [display |-> FALSE, kind |-> "none", icon |-> "",
                                        label |-> "", article |-> "", adjective |-> ""],
                           onMap |-> {}, outlineLayer |-> <<>>, sketchLayer |-> <<>>,
                           canvasOutlines |-> <<>>]>>

NextScans ==
    \/ LoadRadarData(FeedA) /\ UNCHANGED retryVars
    \/ Render /\ UNCHANGED retryVars
    \/ Rescan
    \/ \E t \in Timeouts : Dispatch(t, FALSE)
    \/ \E t \in Timeouts, u1, u2 \in 0..(AnalysisGrain - 1) : LocalResult(t, u1, u2)
    \/ \E t \in Timeouts : StatusReset(t)
    \/ \E t \in Timeouts : AutoClose(t)

SpecScans == InitScans /\ [][NextScans]_vars

----------------------------------------------------------------------------
(* The selection tool: the select, lock and exit buttons, the Escape key,  *)
(* the analysis cards, and mouse and touch events on the map and on the    *)
(* resize handles, at the points of a row.  A point is <<lng, lat>>.        *)

SelectSpan == 1

SelectPoints == (0..SelectSpan) \X {0}

\* a rectangle is followed while it stays within one step of the row
InReach(s) ==
    s.selectionLayer # <<>> =>
        s.selectionLayer[1].west >= -1 /\ s.selectionLayer[1].east <= SelectSpan + 1

\* L.latLngBounds(a, b)
latLngBounds(a, b) ==
    [west |-> Min(a[1], b[1]), east |-> Max(a[1], b[1]),
     south |-> Min(a[2], b[2]), north |-> Max(a[2], b[2])]

\* bounds.contains(latlng)
contains(bounds, p) ==
    /\ bounds.west <= p[1] /\ p[1] <= bounds.east
    /\ bounds.south <= p[2] /\ p[2] <= bounds.north

\* initSelectionTool, with the map's dragging on and the panel hidden
initSelectionTool ==
    [isSelectionMode |-> FALSE, isSelecting |-> FALSE, isDraggingSelection |-> FALSE,
     isResizingSelection |-> FALSE, resizeHandleIndex |-> -1,
     selectionStartLatLng |-> <<>>, selectionBoundsLatLng |-> <<>>,
     selectionLayer |-> <<>>, resizeHandles |-> FALSE,
     selectionDragStart |-> <<>>, selectionDragBoundsStart |-> <<>>,
     dragging |-> TRUE, panel |-> FALSE, analysisMode |-> <<>>]

\* hideResizeHandles
hideResizeHandles(s) == [s EXCEPT !.resizeHandles = FALSE]

\* showResizeHandles: four handles when there is a rectangle
showResizeHandles(s) == [s EXCEPT !.resizeHandles = s.selectionLayer # <<>>]

\* clearSelection
clearSelection(s) ==
    [s EXCEPT !.selectionLayer = <<>>, !.resizeHandles = FALSE,
              !.selectionBoundsLatLng = <<>>, !.panel = FALSE, !.analysisMode = <<>>]

\* toggleSelectionMode
toggleSelectionMode(s) ==
    IF ~s.isSelectionMode
      THEN showResizeHandles([s EXCEPT !.isSelectionMode = TRUE, !.dragging = FALSE])
      ELSE hideResizeHandles([s EXCEPT !.isSelectionMode = FALSE, !.dragging = TRUE])

\* onMapMouseDown({latlng: p})
onMapMouseDown(s, p) ==
    IF ~s.isSelectionMode THEN s
    ELSE IF s.isResizingSelection THEN s
    ELSE IF s.selectionLayer # <<>> /\ contains(s.selectionLayer[1], p)
      THEN [s EXCEPT !.isDraggingSelection = TRUE,
                     !.selectionDragStart = <<p>>,
                     !.selectionDragBoundsStart = s.selectionLayer,
                     !.dragging = FALSE]
      ELSE [clearSelection([s EXCEPT !.isSelecting = TRUE, !.selectionStartLatLng = <<p>>])
              EXCEPT !.selectionLayer = <<latLngBounds(p, p)>>]

\* handleResize(cursorLatLng)
handleResize(s, p) ==
    LET bounds == s.selectionLayer[1]
        nw == <<bounds.west, bounds.north>>
        se == <<bounds.east, bounds.south>>
        bl == <<bounds.west, bounds.south>>
        tr == <<bounds.east, bounds.north>>
    IN IF s.resizeHandleIndex = 0 THEN [s EXCEPT !.selectionLayer = <<latLngBounds(p, se)>>]
       ELSE IF s.resizeHandleIndex = 1 THEN [s EXCEPT !.selectionLayer = <<latLngBounds(p, bl)>>]
       ELSE IF s.resizeHandleIndex = 2 THEN [s EXCEPT !.selectionLayer = <<latLngBounds(nw, p)>>]
       ELSE IF s.resizeHandleIndex = 3 THEN [s EXCEPT !.selectionLayer = <<latLngBounds(p, tr)>>]
       ELSE s

\* onMapMouseMove({latlng: p}); thrown is TRUE when it reads the bounds of
\* a rectangle that is gone
onMapMouseMove(s, p) ==
    IF s.isSelecting
      THEN IF s.selectionLayer = <<>> THEN [s |-> s, thrown |-> TRUE]
           ELSE [s |-> [s EXCEPT !.selectionLayer =
                                   <<latLngBounds(s.selectionStartLatLng[1], p)>>],
                 thrown |-> FALSE]
    ELSE IF s.isDraggingSelection
      THEN IF s.selectionLayer = <<>> THEN [s |-> s, thrown |-> TRUE]
           ELSE LET start == s.selectionDragBoundsStart[1]
                    lngDiff == p[1] - s.selectionDragStart[1][1]
                    latDiff == p[2] - s.selectionDragStart[1][2]
                IN [s |-> [s EXCEPT !.selectionLayer =
                                      <<latLngBounds(<<start.west + lngDiff, start.south + latDiff>>,
                                                     <<start.east + lngDiff, start.north + latDiff>>)>>],
                    thrown |-> FALSE]
    ELSE IF s.isResizingSelection
      THEN IF s.selectionLayer = <<>> THEN [s |-> s, thrown |-> TRUE]
           ELSE [s |-> handleResize(s, p), thrown |-> FALSE]
    ELSE [s |-> s, thrown |-> FALSE]

\* the first block of onMapMouseUp
mouseUpSelecting(s) ==
    IF ~s.isSelecting THEN [s |-> s, thrown |-> FALSE]
    ELSE IF s.selectionLayer = <<>>
      THEN [s |-> [s EXCEPT !.isSelecting = FALSE], thrown |-> TRUE]
      ELSE [s |-> [showResizeHandles([s EXCEPT !.isSelecting = FALSE,
                                               !.selectionBoundsLatLng = s.selectionLayer])
                     EXCEPT !.panel = TRUE],
            thrown |-> FALSE]

\* its second block
mouseUpDragging(r) ==
    IF r.thrown \/ ~r.s.isDraggingSelection THEN r
    ELSE IF r.s.selectionLayer = <<>>
      THEN [s |-> [r.s EXCEPT !.isDraggingSelection = FALSE], thrown |-> TRUE]
      ELSE [s |-> [r.s EXCEPT !.isDraggingSelection = FALSE,
                              !.selectionBoundsLatLng = r.s.selectionLayer],
            thrown |-> FALSE]

\* its third block
mouseUpResizing(r) ==
    IF r.thrown \/ ~r.s.isResizingSelection THEN r
    ELSE IF r.s.selectionLayer = <<>>
      THEN [s |-> [r.s EXCEPT !.isResizingSelection = FALSE], thrown |-> TRUE]
      ELSE [s |-> [r.s EXCEPT !.isResizingSelection = FALSE,
                              !.selectionBoundsLatLng = r.s.selectionLayer,
                              !.dragging = FALSE],
            thrown |-> FALSE]

\* onMapMouseUp
onMapMouseUp(s) == mouseUpResizing(mouseUpDragging(mouseUpSelecting(s)))

\* what the handlers of the tool leave alone
ToolFrame ==
    UNCHANGED <<cacheVars, appVars, retryVars, view, mode, status, ink, extraction, shape,
                analysis>>

ToolStep(op, s) ==
    /\ InReach(s)
    /\ selectionTool' = <<s>>
    /\ last' = Step(op)
    /\ ToolFrame

\* the select button
SelectButton == ToolStep("toggleSelectionMode", toggleSelectionMode(selectionTool[1]))

\* the Escape key
EscapeKey ==
    ToolStep("escape", IF selectionTool[1].isSelectionMode
                         THEN toggleSelectionMode(selectionTool[1]) ELSE selectionTool[1])

\* the lock button
LockSelection ==
    ToolStep("lock", IF selectionTool[1].isSelectionMode
                       THEN toggleSelectionMode(selectionTool[1]) ELSE selectionTool[1])

\* the exit button of the analysis panel
ExitAnalysis ==
    /\ selectionTool[1].panel
    /\ ToolStep("exit", IF selectionTool[1].isSelectionMode
                          THEN toggleSelectionMode(selectionTool[1])
                          ELSE clearSelection(selectionTool[1]))

\* an analysis card
SelectAnalysisCard(m) ==
    /\ selectionTool[1].panel
    /\ ToolStep("selectAnalysisCard", [selectionTool[1] EXCEPT !.analysisMode = <<m>>])

MouseDown(p) == ToolStep("mousedown", onMapMouseDown(selectionTool[1], p))

MouseMove(p) == ToolStep("mousemove", onMapMouseMove(selectionTool[1], p).s)

MouseUp == ToolStep("mouseup", onMapMouseUp(selectionTool[1]).s)

\* onTouchStart, onTouchMove and onTouchEnd of a single touch
TouchStart(p) ==
    ToolStep("touchstart", IF ~selectionTool[1].isSelectionMode THEN selectionTool[1]
                           ELSE onMapMouseDown(selectionTool[1], p))

TouchMove(p) ==
    ToolStep("touchmove", IF ~selectionTool[1].isSelectionMode THEN selectionTool[1]
                          ELSE onMapMouseMove(selectionTool[1], p).s)

TouchEnd ==
    ToolStep("touchend", IF ~selectionTool[1].isSelectionMode THEN selectionTool[1]
                         ELSE onMapMouseUp(selectionTool[1]).s)

\* mousedown on the resize handle of a corner
HandlePress(index) ==
    /\ selectionTool[1].resizeHandles
    /\ ToolStep("handle", IF ~selectionTool[1].isSelectionMode THEN selectionTool[1]
                          ELSE [selectionTool[1] EXCEPT !.isResizingSelection = TRUE,
                                                        !.resizeHandleIndex = index,
                                                        !.dragging = FALSE])

InitSelect ==
    /\ InitApp
    /\ frames = <<>>
    /\ view = <<ViewWest>>
    /\ ink = <<>>
    /\ extraction = <<>>
    /\ shape = <<>>
    /\ analysis = <<>>
    /\ selectionTool = <<initSelectionTool>>

NextSelect ==
    \/ SelectButton
    \/ EscapeKey
    \/ LockSelection
    \/ ExitAnalysis
    \/ \E m \in {"local", "cloud"} : SelectAnalysisCard(m)
    \/ \E p \in SelectPoints : MouseDown(p)
    \/ \E p \in SelectPoints : MouseMove(p)
    \/ MouseUp
    \/ \E p \in SelectPoints : TouchStart(p)
    \/ \E p \in SelectPoints : TouchMove(p)
    \/ TouchEnd
    \/ \E index \in 0..3 : HandlePress(index)

SpecSelect == InitSelect /\ [][NextSelect]_vars

----------------------------------------------------------------------------
(* Properties *)

Calls(l) == {l.calls[n] : n \in DOMAIN l.calls}

pendingFor(k) == {i \in images : i.key = k}

IsHandler(l) == l.op \in {"render", "scrubber", "preload"}

\* the tile rectangle [nw.x, se.x) x [nw.y, se.y) of a viewport
RectTiles(v) ==
    {<<x, y>> : x \in Floor(v.origin[1], tileSize)..(Ceil(v.origin[1] + v.size[1], tileSize) - 1),
                y \in Floor(v.origin[2], tileSize)..(Ceil(v.origin[2] + v.size[2], tileSize) - 1)}

\* the number of tile coordinates of a viewport's covering rectangle
RectCount(v) ==
    LET w == Ceil(v.origin[1] + v.size[1], tileSize) - Floor(v.origin[1], tileSize)
        h == Ceil(v.origin[2] + v.size[2], tileSize) - Floor(v.origin[2], tileSize)
    IN (IF w > 0 THEN w ELSE 0) * (IF h > 0 THEN h ELSE 0)

\* the rectangle's tile coordinates in raster-scan order: x outer, y inner
RasterOrder(v) ==
    LET x0 == Floor(v.origin[1], tileSize)
        y0 == Floor(v.origin[2], tileSize)
        h == Ceil(v.origin[2] + v.size[2], tileSize) - y0
    IN [i \in 1..RectCount(v) |-> <<x0 + ((i - 1) \div h), y0 + ((i - 1) % h)>>]

\* C1: at most one fetch per key is outstanding at any time, whatever the
\* interleaving of get calls (from the render loop and from preload) and
\* completions; after a handler has called get for a key that is not cached,
\* however many times, exactly one fetch for it is outstanding, and the
\* handler's calls for the key started at most one fetch.
C1_OneFetchPerKey ==
    /\ \A i1, i2 \in images : i1.key = i2.key => i1 = i2
    /\ \A c \in Calls(last) : ~c.cached => Cardinality(pendingFor(c.key)) = 1
    /\ \A m, n \in DOMAIN last.calls :
          (last.calls[m].key = last.calls[n].key /\ last.calls[m].fetched
             /\ last.calls[n].fetched) => m = n

\* one handler called get three times for a key that was not cached and not
\* in flight: the first call started the fetch, the others found it in
\* flight, and it is the only fetch for the key
C1_Witness ==
    \E m, n, o \in DOMAIN last.calls :
       /\ m < n /\ n < o
       /\ last.calls[m].key = last.calls[n].key /\ last.calls[n].key = last.calls[o].key
       /\ ~last.calls[m].cached /\ ~last.calls[m].active /\ last.calls[m].fetched
       /\ last.calls[n].active /\ ~last.calls[n].fetched
       /\ last.calls[o].active /\ ~last.calls[o].fetched
       /\ Cardinality(pendingFor(last.calls[m].key)) = 1

\* C2: after a key's fetch has failed, the next get for the key starts a new
\* fetch, however many fetches of the key have failed in a row: whenever get
\* has been called for a key since its last failure and the key is not
\* cached, exactly one fetch for it is in flight.
C2_RetryAfterFailure ==
    \A k \in askedSince :
       failuresOf(k) > 0 =>
          \/ k \in DOMAIN cache
          \/ (k \in activeRequests /\ Cardinality(pendingFor(k)) = 1)

\* a key whose fetch failed MaxFailures times in a row was asked for again
\* by the handler just run, which started a new fetch for it
C2_Witness ==
    \E c \in Calls(last) :
       /\ failuresOf(c.key) >= MaxFailures
       /\ c.key \in askedSince
       /\ c.fetched
       /\ Cardinality(pendingFor(c.key)) = 1

\* C3: get returns the cached tile and starts no fetch when the key is
\* cached; otherwise it returns null, and starts a fetch exactly when no
\* fetch for the key is in flight.
C3_GetContract ==
    \A c \in Calls(last) :
       /\ c.cached => (c.ret = <<cache[c.key]>> /\ ~c.fetched)
       /\ ~c.cached => (c.ret = <<>> /\ (c.fetched <=> ~c.active)
                        /\ pendingFor(c.key) # {})

\* one handler met all three cases: a cached key, a key in flight, an idle key
C3_Witness ==
    \E c1, c2, c3 \in Calls(last) :
       /\ c1.cached /\ c1.ret # <<>>
       /\ ~c2.cached /\ c2.active /\ ~c2.fetched
       /\ ~c3.cached /\ ~c3.active /\ c3.fetched

C4_FailureStep ==
    last'.op = "onerror" =>
       /\ last'.img[1] \in images
       /\ activeRequests' = activeRequests \ {last'.img[1].key}
       /\ last'.img[1].key \notin activeRequests'
       /\ cache' = cache

\* C4: a failed fetch removes its key from the in-flight set and leaves the
\* cache map as it was: no entry added, replaced or removed, for any key.
C4_FailureLeavesCache == [][C4_FailureStep]_vars

\* a fetch has just failed while other tiles are cached
C4_Witness ==
    /\ last.op = "onerror"
    /\ DOMAIN cache # {}
    /\ last.img[1].key \notin DOMAIN cache
    /\ last.img[1].key \notin activeRequests

C5_EntriesKept ==
    \A k \in DOMAIN cache : k \in DOMAIN cache' /\ cache'[k] = cache[k]

\* C5: the cache never evicts: an entry, once present, is present in every
\* later state with the same tile.
C5_NeverEvicts == [][C5_EntriesKept]_vars

\* a tile was stored while another was cached already
C5_Witness ==
    /\ last.op = "onload"
    /\ Cardinality(DOMAIN cache) >= 2

C6_EntryReady ==
    \A k \in DOMAIN cache :
       /\ cache[k].key = k
       /\ cache[k].complete /\ cache[k].naturalWidth > 0
       /\ k \notin activeRequests
       /\ pendingFor(k) = {}

C6_InsertedByOwnLoad ==
    \A k \in DOMAIN cache' \ DOMAIN cache :
       /\ last'.op = "onload"
       /\ last'.img[1] \in images
       /\ last'.img[1].key = k

\* C6: every cache entry is the completely loaded tile of its own key, put
\* there by that key's fetch succeeding, and no key is both cached and in
\* flight.
C6_CacheReadyOrAbsent == [](C6_EntryReady) /\ [][C6_InsertedByOwnLoad]_vars

\* a key's tile has just been cached while another key is still in flight
C6_Witness ==
    /\ last.op = "onload"
    /\ last.img[1].key \in DOMAIN cache
    /\ \E k \in activeRequests : k \notin DOMAIN cache

C7_LoadStep ==
    last'.op = "onload" =>
       LET img == last'.img[1]
       IN /\ img.key = getKey(img.path, img.z, img.x, img.y)
          /\ DOMAIN cache' = DOMAIN cache \cup {img.key}
          /\ cache'[img.key].id = img.id /\ cache'[img.key].path = img.path
          /\ \A k \in DOMAIN cache \ {img.key} : cache'[k] = cache[k]
          /\ activeRequests' \ {img.key} = activeRequests \ {img.key}
          /\ images' = images \ {img}
          /\ layerFrame' = layerFrame
          /\ currentFrameIndex' = currentFrameIndex
          /\ view' = view

C7_OnlyCompletionEnds ==
    images \ images' \subseteq
       (IF last'.op \in {"onload", "onerror"} THEN {last'.img[1]} ELSE {})

\* C7: no cancellation.  A pending fetch leaves flight only by its own
\* completion (changing the frame or the viewport cancels nothing), and a
\* completing fetch stores its tile under its own key whatever is displayed
\* by then, changing neither the entries or markers of other keys nor the
\* displayed frame.
C7_NoCancellation == [][C7_LoadStep /\ C7_OnlyCompletionEnds]_vars

\* a tile of frame /a, fetched at another zoom than the map's present one,
\* has just been stored while frame /b is displayed and tiles of /b are in
\* flight
C7_Witness ==
    /\ last.op = "onload"
    /\ last.img[1].path = "/a"
    /\ last.img[1].key \in DOMAIN cache
    /\ layerFrame # <<>> /\ layerFrame[1].path = "/b"
    /\ last.img[1].z # view[1].zoom
    /\ \E i \in images : i.path = "/b"

C8_StepWhilePending ==
    \A h \in images \cap images' :
       /\ h.key \in activeRequests' /\ h.key \notin DOMAIN cache'
       /\ {i \in images' : i.key = h.key} = {h}
       /\ IsHandler(last') =>
             \A c \in Calls(last') : c.key = h.key => (c.ret = <<>> /\ ~c.fetched)
       /\ (last'.op = "render" /\ last'.ran) =>
             /\ last'.totalCount = RectCount(view[1])
             /\ Len(last'.visited) = RectCount(view[1])
             /\ \A c \in Calls(last') :
                   c.key # h.key =>
                      IF c.cached THEN c.ret = <<cache[c.key]>>
                                  ELSE c.key \in activeRequests'
       /\ last'.op = "onload" => last'.img[1].key \in DOMAIN cache'

\* C8: a fetch h that stays pending stalls only its own key.  In every step
\* that does not complete h: its key stays in flight with h the only fetch
\* for it, every get for the key returns null and starts nothing, a render
\* pass still visits the whole rectangle and serves every other key (the
\* cached tile, or a fetch in flight), and any other fetch that completes
\* is stored.
C8_HungFetchIsLocal == [][C8_StepWhilePending]_vars

\* a render pass found one key still in flight, got null for it, and drew
\* the tile of another key
C8_Witness ==
    /\ last.op = "render" /\ last.ran
    /\ \E c1, c2 \in Calls(last) :
          /\ ~c1.cached /\ c1.active /\ c1.ret = <<>> /\ pendingFor(c1.key) # {}
          /\ c2.cached /\ c2.ret # <<>>
    /\ last.loadedCount >= 1

\* C9: preload(frames, map) calls get for exactly the pairs of a path of one
\* of the first min(len, 5) frames and a tile of the rectangle at the map's
\* zoom, once per frame and tile, and for no other key; with no map it does
\* nothing.
C9_PreloadRequests ==
    last.op = "preload" =>
       IF view = <<>>
         THEN last.calls = <<>> /\ images = {} /\ activeRequests = {} /\ DOMAIN cache = {}
         ELSE LET n == IF Len(frames) < 5 THEN Len(frames) ELSE 5
              IN /\ {<<c.path, c.z, c.x, c.y>> : c \in Calls(last)}
                      = {<<frames[i].path, view[1].zoom, t[1], t[2]>> :
                            i \in 1..n, t \in RectTiles(view[1])}
                 /\ Len(last.calls) = n * Cardinality(RectTiles(view[1]))
                 /\ \A i \in images : \E j \in 1..n : i.path = frames[j].path
                 /\ \A k \in DOMAIN cache : \E j \in 1..n : cache[k].path = frames[j].path

\* preload ran over six frames with a map: it made ten calls (five frames,
\* two tiles) and none for the sixth frame's path /c
C9_Witness ==
    /\ last.op = "preload"
    /\ Len(frames) = 6
    /\ view # <<>>
    /\ Len(last.calls) = 10
    /\ \A c \in Calls(last) : c.path # "/c"

\* C10: a compositing pass visits every tile coordinate of the covering
\* rectangle exactly once, in raster-scan order; total is the number of tile
\* coordinates, loaded the number of them whose tile was ready, each of
\* which was drawn into the buffer at its position, and 0 <= loaded <= total.
C10_PassCounts ==
    (last.op = "render" /\ last.ran) =>
       LET v == view[1]
           ready == {t \in RectTiles(v) :
                        getKey(layerFrame[1].path, v.zoom, t[1], t[2]) \in DOMAIN cache}
       IN /\ last.visited = RasterOrder(v)
          /\ last.totalCount = Cardinality(RectTiles(v))
          /\ last.loadedCount = Cardinality(ready)
          /\ Len(last.buffer) = last.loadedCount
          /\ {<<d.img.x, d.img.y>> : d \in {last.buffer[i] : i \in DOMAIN last.buffer}} = ready
          /\ \A i \in DOMAIN last.buffer :
                /\ last.buffer[i].img.path = layerFrame[1].path
                /\ last.buffer[i].pos = <<last.buffer[i].img.x * tileSize - v.origin[1],
                                          last.buffer[i].img.y * tileSize - v.origin[2]>>
          /\ 0 <= last.loadedCount /\ last.loadedCount <= last.totalCount

\* a pass over four tiles of which some, not all, were ready
C10_Witness ==
    /\ last.op = "render" /\ last.ran
    /\ last.totalCount = 4
    /\ last.loadedCount \in 1..3

\* a pass directly after a pass, nothing changed in between
C11_SecondPassSame ==
    (/\ last.op = "render" /\ last.ran /\ last'.op = "render" /\ last'.ran
     /\ layerFrame' = layerFrame /\ view' = view /\ mode' = mode
     /\ cache' = cache)
    => /\ last'.buffer = last.buffer
       /\ last'.canvas = last.canvas
       /\ last'.binarized = last.binarized
       /\ last'.loadedCount = last.loadedCount
       /\ last'.totalCount = last.totalCount

\* C11: compositing is idempotent.  When a pass directly follows a pass, with
\* the same frame, viewport and display mode and no tile completion in
\* between, it yields the same buffer, the same canvas drawing and the same
\* (loaded, total) counts as the pass before, even when that pass started
\* fetches.
C11_Idempotent == [][C11_SecondPassSame]_vars

\* the second of two passes in a row, the first of which started fetches,
\* over a rectangle with some tiles drawn and some missing, in an ink mode
C11_Witness ==
    /\ last.op = "render" /\ last.ran /\ last.again
    /\ last.binarized
    /\ last.loadedCount \in 1..3
    /\ last.totalCount = 4
    /\ \A n \in DOMAIN last.calls : ~last.calls[n].fetched

\* C12: after each render pass with a frame set, the status is ONLINE if and
\* only if every tile of the rectangle was ready and the rectangle is not
\* empty, and SCANNING... otherwise, also for an empty rectangle.
C12_StatusAfterPass ==
    (last.op = "render" /\ last.ran) =>
       LET v == view[1]
           ready == {t \in RectTiles(v) :
                        getKey(layerFrame[1].path, v.zoom, t[1], t[2]) \in DOMAIN cache}
           loaded == Cardinality(ready)
           total == Cardinality(RectTiles(v))
       IN /\ status \in {"ONLINE", "SCANNING..."}
          /\ status = "ONLINE" <=> (loaded = total /\ total > 0)

\* a pass over an empty tile rectangle left the status SCANNING...
C12_Witness ==
    /\ last.op = "render" /\ last.ran
    /\ RectTiles(view[1]) = {}
    /\ last.totalCount = 0 /\ last.loadedCount = 0
    /\ status = "SCANNING..."

\* a pass that drew every tile of its rectangle left the status ONLINE
C12_WitnessOnline ==
    /\ last.op = "render" /\ last.ran
    /\ last.totalCount = 4 /\ last.loadedCount = 4
    /\ status = "ONLINE"

\* the pixel (R, G, B, A) number n, from 0, of a byte array
PixelAt(data, n) == <<data[4 * n + 1], data[4 * n + 2], data[4 * n + 3], data[4 * n + 4]>>

\* C13: binarize maps each pixel on its own.  A pixel with alpha > 0 becomes
\* R = G = B = A = 255, a pixel with alpha 0 keeps all four channels, and a
\* pixel's result depends on that pixel alone: neither on its position nor
\* on the other pixels, hence not on the order of processing.
C13_BinarizePerPixel ==
    (ink # <<>> /\ ink[1].applied) =>
       LET in == ink[1].before
           out == ink[1].buffer
           n == Len(in) \div 4
       IN /\ Len(out) = Len(in)
          /\ \A p \in 0..(n - 1) :
                IF PixelAt(in, p)[4] > 0
                  THEN PixelAt(out, p) = <<255, 255, 255, 255>>
                  ELSE PixelAt(out, p) = PixelAt(in, p)
          /\ \A p, q \in 0..(n - 1) :
                PixelAt(in, p) = PixelAt(in, q) => PixelAt(out, p) = PixelAt(out, q)

\* the effect ran over a faint pixel without red (alpha 1) next to an empty
\* pixel: the first is white and opaque, the second untouched
C13_Witness ==
    /\ ink # <<>> /\ ink[1].applied
    /\ PixelAt(ink[1].before, 0) = <<0, 200, 0, 1>>
    /\ PixelAt(ink[1].buffer, 0) = <<255, 255, 255, 255>>
    /\ PixelAt(ink[1].before, 1) = <<0, 0, 0, 0>>
    /\ PixelAt(ink[1].buffer, 1) = <<0, 0, 0, 0>>

\* the extraction has run, and what it computed
Extracted == extraction # <<>> /\ extraction[1].result # <<>>

Out == extraction[1].result[1]

\* the binary mask: sample (x, y) of the scanned data is inside
Inside(data, x, y) == data[y + 1][x + 1] > threshold

Samples(o) == (0..(o.smWidth - 1)) \X (0..(o.smHeight - 1))

\* the 2x2 blocks of the scanned grid whose corners are not all alike
MixedBlocks(o) ==
    {b \in (0..(o.smWidth - 2)) \X (0..(o.smHeight - 2)) :
        \E dx, dy \in {0, 1} :
           Inside(o.data, b[1] + dx, b[2] + dy) # Inside(o.data, b[1], b[2])}

\* the ends of a sequence of segments <<x1, y1, x2, y2>>
EndsX(segs) == {segs[i][1] : i \in DOMAIN segs} \cup {segs[i][3] : i \in DOMAIN segs}

EndsY(segs) == {segs[i][2] : i \in DOMAIN segs} \cup {segs[i][4] : i \in DOMAIN segs}

\* the points of a blob's segments
BlobPoints(blob) ==
    {blob.segments[i][1] : i \in DOMAIN blob.segments}
       \cup {blob.segments[i][2] : i \in DOMAIN blob.segments}

Least(S) == CHOOSE v \in S : \A w \in S : v <= w

Greatest(S) == CHOOSE v \in S : \A w \in S : v >= w

\* C14: extract returns no Blob if and only if no 2x2 block of the binary
\* mask has mixed corners; so an all-zero mask and a mask filled everywhere
\* return no Blob, and a mask with a mixed block returns one.
C14_NoBlobIffNoMixedBlock ==
    Extracted =>
       /\ (Out.blob = <<>>) <=> (MixedBlocks(Out) = {})
       /\ (\A p \in Samples(Out) : ~Inside(Out.data, p[1], p[2])) => Out.blob = <<>>
       /\ (\A p \in Samples(Out) : Inside(Out.data, p[1], p[2])) => Out.blob = <<>>
       /\ MixedBlocks(Out) # {} => Out.blob # <<>>

\* a buffer filled everywhere: every sample of the mask is inside, there is
\* no boundary within the grid, and no Blob is returned
C14_Witness ==
    /\ Extracted
    /\ Samples(Out) # {}
    /\ \A p \in Samples(Out) : Inside(Out.data, p[1], p[2])
    /\ Out.blob = <<>>

\* C15: a returned Blob never has an empty segment list, and when the scan
\* emitted no segment the result is absent, not a Blob without segments.
C15_NeverEmptySegments ==
    Extracted =>
       /\ Out.blob # <<>> => Len(Out.blob[1].segments) > 0
       /\ Out.segments = <<>> => Out.blob = <<>>
       /\ Out.blob # <<>> => Len(Out.blob[1].segments) = Len(Out.segments)

\* one extraction returned a Blob with its segments
C15_Witness ==
    /\ Extracted
    /\ Out.blob # <<>>
    /\ Len(Out.blob[1].segments) >= 4
    /\ MixedBlocks(Out) # {}

C17_CenterIsMidpoint ==
    (Extracted /\ Out.blob # <<>>) =>
       LET lats == {q.lat : q \in BlobPoints(Out.blob[1])}
           lngs == {q.lng : q \in BlobPoints(Out.blob[1])}
           c == Out.blob[1].center
       IN /\ 2 * c.lat = Least(lats) + Greatest(lats)
          /\ 2 * c.lng = Least(lngs) + Greatest(lngs)
          /\ Least(lats) <= c.lat /\ c.lat <= Greatest(lats)
          /\ Least(lngs) <= c.lng /\ c.lng <= Greatest(lngs)

\* the weaker half of C17 alone: center lies inside the bounding box of the
\* ends of the Blob's segments
C17_CenterInsideBox ==
    (Extracted /\ Out.blob # <<>>) =>
       LET lats == {q.lat : q \in BlobPoints(Out.blob[1])}
           lngs == {q.lng : q \in BlobPoints(Out.blob[1])}
           c == Out.blob[1].center
       IN /\ Least(lats) <= c.lat /\ c.lat <= Greatest(lats)
          /\ Least(lngs) <= c.lng /\ c.lng <= Greatest(lngs)

\* the clip rectangle, scaled, overlaps sample (x, y)
ClipHolds(c, x, y) ==
    /\ 3 * c.minX < 4 * (x + 1) /\ 4 * x < 3 * c.maxX
    /\ 3 * c.minY < 4 * (y + 1) /\ 4 * y < 3 * c.maxY

\* C18: if the clip rectangle contains none of the mask's inside samples,
\* extract with that clip returns no Blob, whatever the mask, also when the
\* extraction without the clip returns a Blob.
C18_ClipExcludesAll ==
    (/\ Extracted
     /\ extraction[1].clip # <<>>
     /\ \A p \in Samples(Out) :
           Inside(Out.drawn, p[1], p[2]) => ~ClipHolds(extraction[1].clip[1], p[1], p[2]))
    => Out.blob = <<>>

\* a selection in the corner of the map that holds no inside sample of a
\* mask with inside samples, for which the extraction without a selection
\* returns a Blob
C18_Witness ==
    /\ Extracted
    /\ extraction[1].clip # <<>>
    /\ \E p \in Samples(Out) : Inside(Out.drawn, p[1], p[2])
    /\ \E p \in Samples(Out) : ClipHolds(extraction[1].clip[1], p[1], p[2])
    /\ \A p \in Samples(Out) :
          Inside(Out.drawn, p[1], p[2]) => ~ClipHolds(extraction[1].clip[1], p[1], p[2])
    /\ Out.blob = <<>>
    /\ getOutlines(extraction[1].buffer, <<>>, view[1]).blob # <<>>

\* the buffer holds a filled rectangle strictly inside it, and no clip
InteriorRect ==
    /\ Extracted
    /\ extraction[1].clip = <<>>
    /\ LET r == extraction[1].rect
       IN /\ 0 < r.x0 /\ r.x0 < r.x1 /\ r.x1 < r.size
          /\ 0 < r.y0 /\ r.y0 < r.y1 /\ r.y1 < r.size
          /\ r.a = 255

\* the bounding box of the segments' ends lies within d sixths of a pixel of
\* the rectangle's extent, on each side
BoxWithin(d) ==
    LET r == extraction[1].rect
    IN /\ Least(EndsX(Out.segments)) >= Px * r.x0 - d
       /\ Greatest(EndsX(Out.segments)) <= Px * r.x1 + d
       /\ Least(EndsY(Out.segments)) >= Px * r.y0 - d
       /\ Greatest(EndsY(Out.segments)) <= Px * r.y1 + d

BoxEquals(d) ==
    LET r == extraction[1].rect
    IN /\ BoxWithin(d)
       /\ Least(EndsX(Out.segments)) <= Px * r.x0 + d
       /\ Greatest(EndsX(Out.segments)) >= Px * r.x1 - d
       /\ Least(EndsY(Out.segments)) <= Px * r.y0 + d
       /\ Greatest(EndsY(Out.segments)) >= Px * r.y1 - d

\* one downsample cell, 1 / 0.75 pixels, in sixths of a pixel
OneCell == (Px * scaleDen) \div scaleNum

\* C19, as claimed: for a filled rectangle strictly inside the buffer and no
\* clip, extract returns a Blob whose bounding box equals the rectangle's
\* extent up to one downsample cell on each side.
C19_BoxMatchesRectangle ==
    InteriorRect => (Out.blob # <<>> /\ BoxEquals(OneCell))

\* C19, amended: for a filled rectangle strictly inside the buffer and no
\* clip, extract returns no Blob when the rectangle does not survive the
\* blur, and otherwise a Blob whose segments lie within the rectangle's
\* extent grown on each side by the blur's 8 downsampled cells.
C19_BoxWithinBlurReach ==
    InteriorRect => (Out.blob = <<>> \/ BoxWithin(8 * OneCell))

\* a rectangle with room around it: the Blob's box is off the rectangle's
\* extent by more than a cell and stays within the blur's reach, inside the
\* buffer
C19_Witness ==
    /\ InteriorRect
    /\ Out.blob # <<>>
    /\ ~BoxEquals(OneCell)
    /\ BoxWithin(8 * OneCell)
    /\ Least(EndsX(Out.segments)) > 0
    /\ Greatest(EndsX(Out.segments)) < Px * (extraction[1].rect.size - 2)

\* an analysis has run and returned a result
Analyzed == shape # <<>> /\ shape[1].ran /\ shape[1].result # <<>>

Metrics == shape[1].result[1].metrics

\* C20: classify assigns the category by the first matching rule, in this
\* order: normalizedMagnitude < 0.1 gives tiny; normalizedMagnitude > 0.6
\* gives huge; otherwise aspectRatio > 2.5 gives elongated; otherwise
\* ruggedness > 1.5 gives spiky; otherwise round.  So a blob below 0.1 is
\* tiny and one above 0.6 is huge for every aspect ratio and ruggedness.
C20_FirstMatchWins ==
    Analyzed =>
       LET nm == Metrics.normalizedMagnitude
           ar == Metrics.aspectRatio
           rg == Metrics.ruggedness
           c == Metrics.category
       IN /\ less(nm, 1, 10) => c = "tiny"
          /\ greater(nm, 6, 10) => c = "huge"
          /\ (~less(nm, 1, 10) /\ ~greater(nm, 6, 10) /\ greater(ar, 5, 2))
                => c = "elongated"
          /\ (~less(nm, 1, 10) /\ ~greater(nm, 6, 10) /\ ~greater(ar, 5, 2)
                 /\ greater(rg, 3, 2)) => c = "spiky"
          /\ (~less(nm, 1, 10) /\ ~greater(nm, 6, 10) /\ ~greater(ar, 5, 2)
                 /\ ~greater(rg, 3, 2)) => c = "round"

\* a blob at 1/20 of the view's diagonal, long and rugged at once, is tiny
C20_Witness ==
    /\ Analyzed
    /\ Metrics.normalizedMagnitude.num * 20 = Metrics.normalizedMagnitude.den
    /\ Metrics.normalizedMagnitude.den > 0
    /\ greater(Metrics.aspectRatio, 5, 2)
    /\ greater(Metrics.ruggedness, 3, 2)
    /\ Metrics.category = "tiny"

\* normalizedMagnitude lies in the closed interval [0.1, 0.6]
InClosedInterval(nm) ==
    /\ nm.den # 0
    /\ nm.num * 10 >= nm.den
    /\ nm.num * 10 <= 6 * nm.den

\* C21: a blob with aspectRatio > 2.5 and normalizedMagnitude anywhere in
\* the closed interval [0.1, 0.6], both ends included, is elongated,
\* whatever its ruggedness: 0.1 and 0.6 themselves are neither tiny nor huge.
C21_ElongatedOnClosedInterval ==
    (Analyzed /\ greater(Metrics.aspectRatio, 5, 2)
        /\ InClosedInterval(Metrics.normalizedMagnitude))
    => Metrics.category = "elongated"

\* a long and rugged blob at exactly 0.1 of the view's diagonal
C21_Witness ==
    /\ Analyzed
    /\ greater(Metrics.aspectRatio, 5, 2)
    /\ greater(Metrics.ruggedness, 3, 2)
    /\ Metrics.normalizedMagnitude.den > 0
    /\ Metrics.normalizedMagnitude.num * 10 = Metrics.normalizedMagnitude.den
    /\ Metrics.category = "elongated"

\* a long and smooth blob at exactly 0.6 of the view's diagonal
C21_WitnessUpper ==
    /\ Analyzed
    /\ greater(Metrics.aspectRatio, 5, 2)
    /\ ~greater(Metrics.ruggedness, 3, 2)
    /\ Metrics.normalizedMagnitude.den > 0
    /\ Metrics.normalizedMagnitude.num * 10 = 6 * Metrics.normalizedMagnitude.den
    /\ Metrics.category = "elongated"

\* C22: for a fixed blob and viewport, two runs of classify with different
\* draws return the same metrics (magnitude, normalizedMagnitude,
\* aspectRatio, ruggedness) and the same category; only label, icon and
\* adjective can differ between the runs.
C22_MetricsDeterministic ==
    (shape # <<>> /\ shape[1].ran /\ shape[1].ranAgain) =>
       /\ (shape[1].result = <<>>) <=> (shape[1].again = <<>>)
       /\ shape[1].result # <<>> =>
             /\ DOMAIN shape[1].result[1] = {"label", "icon", "adjective", "metrics"}
             /\ DOMAIN shape[1].again[1] = DOMAIN shape[1].result[1]
             /\ DOMAIN shape[1].result[1].metrics =
                   {"magnitude", "normalizedMagnitude", "aspectRatio", "ruggedness",
                    "category"}
             /\ shape[1].again[1].metrics = shape[1].result[1].metrics

\* two runs whose label, icon and adjective all differ
C22_Witness ==
    /\ shape # <<>> /\ shape[1].ran /\ shape[1].ranAgain
    /\ shape[1].result # <<>> /\ shape[1].again # <<>>
    /\ shape[1].again[1].label # shape[1].result[1].label
    /\ shape[1].again[1].icon # shape[1].result[1].icon
    /\ shape[1].again[1].adjective # shape[1].result[1].adjective
    /\ shape[1].again[1].metrics = shape[1].result[1].metrics

\* the entries of a table
Entries(table) == {table[i] : i \in DOMAIN table}

Categories == {"tiny", "huge", "elongated", "spiky", "round"}

\* C23: for every result of classify, the (label, icon) pair is an entry of
\* the dictionary table of the category reported in metrics.category, and
\* the adjective is one of the four adjectives of that category; no draw
\* yields an index outside the table.
C23_DrawnFromCategoryTable ==
    Analyzed =>
       LET r == shape[1].result[1]
       IN /\ [label |-> r.label, icon |-> r.icon]
                \in Entries(RorschachDictionary[r.metrics.category])
          /\ r.adjective \in Entries(adjectives[r.metrics.category])
          /\ Len(adjectives[r.metrics.category]) = 4

\* the last entry of a table of thirteen, with the last adjective
C23_Witness ==
    /\ Analyzed
    /\ LET r == shape[1].result[1]
           table == RorschachDictionary[r.metrics.category]
       IN /\ Len(table) = 13
          /\ r.label = table[13].label
          /\ r.adjective = adjectives[r.metrics.category][4]

\* C24: when classify is called without a viewport, normalizedMagnitude is
\* 0.5 for every blob, so the category is never tiny or huge and is decided
\* by aspectRatio and ruggedness only.
C24_NoViewportDefault ==
    (Analyzed /\ shape[1].viewBounds = <<>>) =>
       /\ Metrics.normalizedMagnitude = [num |-> 1, den |-> 2]
       /\ Metrics.category \notin {"tiny", "huge"}
       /\ Metrics.category = IF greater(Metrics.aspectRatio, 5, 2) THEN "elongated"
                             ELSE IF greater(Metrics.ruggedness, 3, 2) THEN "spiky"
                             ELSE "round"

\* without a viewport, a blob of one point, of magnitude 0, is round, and a
\* box of magnitude 50 is not huge
C24_Witness ==
    /\ Analyzed
    /\ shape[1].viewBounds = <<>>
    /\ Metrics.magnitude = 0
    /\ Metrics.category = "round"

C24_WitnessLarge ==
    /\ Analyzed
    /\ shape[1].viewBounds = <<>>
    /\ Metrics.magnitude = 50
    /\ Metrics.category \in {"round", "spiky"}

\* C25: generic is used only when no blob exists: classify of a blob with at
\* least one segment always returns one of tiny, huge, elongated, spiky and
\* round, never generic, for every value of the metrics; without a blob or
\* without segments it returns nothing.
C25_NeverGeneric ==
    (shape # <<>> /\ shape[1].ran) =>
       IF shape[1].blob # <<>> /\ Len(shape[1].blob[1].segments) >= 1
         THEN /\ shape[1].result # <<>>
              /\ Metrics.category \in Categories
              /\ Metrics.category # "generic"
              /\ [label |-> shape[1].result[1].label, icon |-> shape[1].result[1].icon]
                    \notin Entries(RorschachDictionary["generic"])
         ELSE shape[1].result = <<>>

\* a blob of one point and no viewport: the aspect ratio and the ruggedness
\* are 0 / 0, every comparison fails, and the category is round
C25_Witness ==
    /\ Analyzed
    /\ Metrics.aspectRatio = [num |-> 0, den |-> 0]
    /\ Metrics.ruggedness = [num |-> 0, den |-> 0]
    /\ Metrics.normalizedMagnitude = [num |-> 1, den |-> 2]
    /\ Metrics.category = "round"

\* the step is the metadata load, for a feed
LoadStep == last'.op = "loadRadarData" /\ last'.feed # <<>>

C26_LoadStep ==
    (LoadStep /\ last'.feed[1].ok /\ last'.feed[1].past # <<>>
        /\ last'.feed[1].nowcast # <<>>)
    => LET past == last'.feed[1].past[1]
           nowcast == last'.feed[1].nowcast[1]
       IN /\ Len(frames') = Len(past) + Len(nowcast)
          /\ \A i \in 1..Len(past) : frames'[i] = past[i]
          /\ \A i \in 1..Len(nowcast) : frames'[Len(past) + i] = nowcast[i]

\* C26: after a successful metadata load, the frame sequence is the feed's
\* past list followed by its nowcast list, in feed order, with no frame
\* dropped, duplicated or reordered.
C26_FramesArePastThenNowcast == [][C26_LoadStep]_vars

\* a load of two past and two forecast frames went through: four frames in
\* feed order, the last past frame on the layer
C26_Witness ==
    /\ last.op = "loadRadarData"
    /\ last.feed # <<>> /\ last.feed[1].ok
    /\ status = "ONLINE"
    /\ Len(frames) = 4
    /\ frames[1].time = 1 /\ frames[2].time = 2 /\ frames[3].time = 3 /\ frames[4].time = 4
    /\ layerFrame = <<frames[2]>>

C27_FailureStep ==
    (LoadStep /\ ~last'.feed[1].ok)
    => /\ errorShown' = "CONNECTION FAIL"
       /\ fallback'
       /\ status' = "OFFLINE MODE"
       /\ layerFrame' = <<>>
       /\ frames' = <<>>
       /\ radarLoaded'

\* a turn of the render loop after the failed load: nothing to draw, and
\* what is shown stays
C27_RunsOn ==
    (fallback /\ layerFrame = <<>> /\ last'.op = "render")
    => /\ ~last'.ran
       /\ status' = status
       /\ errorShown' = errorShown
       /\ layerFrame' = <<>>
       /\ cache' = cache /\ images' = images

\* C27: when the metadata fetch or its parsing fails, the failure is shown
\* and the application enters the offline presentation state; no frame is
\* set on the layer, and the process keeps running: the render loop takes
\* its turns as before, with nothing to draw.
C27_FailureGoesOffline == [][C27_FailureStep /\ C27_RunsOn]_vars

\* the render loop has taken a turn after the failed load, with nothing to
\* draw
C27_Witness ==
    /\ fallback
    /\ errorShown = "CONNECTION FAIL"
    /\ status = "OFFLINE MODE"
    /\ layerFrame = <<>>
    /\ last.op = "render" /\ ~last.ran

\* the messages showError is given by the catch block of analyzeWithGemini
ApiErrors ==
    {"API ERROR: " \o errorMessage(r) : r \in FailedResponses}
        \cup {"API ERROR: Security Error: Canvas Tainted. CORS missing?",
              "API ERROR: Cannot read properties of null (reading 'center')"}

RequestPending == analysis # <<>> /\ analysis[1].requests # {}

\* the namer has named the shape
Named == last.op = "response" /\ last.feed[1] \notin FailedResponses

\* the failure was shown and analyzeLocal has run since
FellBack ==
    /\ analysis # <<>>
    /\ analysis[1].analysisMode = "cloud"
    /\ errorShown \in ApiErrors
    /\ analysis[1].localRuns > 0

\* C28: a request to the namer that is not answered by a name (it fails,
\* answers with an error, with empty or malformed content, or is slow to
\* answer) leads to the failure being shown with a message and to
\* analyzeLocal being run.
C28_NamerFailureFallsBack == RequestPending ~> (Named \/ FellBack)

\* a response that names nothing is shown as an error, with its message,
\* and schedules the local analysis
C28_AnsweredStep ==
    (last'.op = "response" /\ last'.feed[1] \in FailedResponses)
    => /\ status' = "ERROR"
       /\ errorShown' = "API ERROR: " \o errorMessage(last'.feed[1])
       /\ \E t \in analysis'[1].timeouts : t.kind = "fallback"
       /\ analysis'[1].localRuns = analysis[1].localRuns

\* the local analysis scheduled after a failure runs when its delay is over
C28_FallbackStep ==
    (\E t \in analysis[1].timeouts : t.kind = "fallback" /\ t \notin analysis'[1].timeouts)
    => /\ last'.op = "analyzeLocal"
       /\ analysis'[1].localRuns = analysis[1].localRuns + 1

\* the part of C28 that the code keeps: every response that names nothing
\* is shown with its message, and analyzeLocal runs when the delay is over
C28_AnsweredFailureFallsBack ==
    /\ [][C28_AnsweredStep /\ C28_FallbackStep]_vars
    /\ (last.op = "response" /\ last.feed[1] \in FailedResponses) ~> FellBack

\* the local analysis has run after a response that named nothing
C28_AnsweredWitness == FellBack /\ last.op = "analyzeLocal"

\* the extractor finds no boundary in what the local analysis looks at
NoBoundary ==
    getOutlines(analysis[1].buffer, analysis[1].selection, view[1]).blob = <<>>

\* analyzeLocal on no boundary: the status, no classification to come, no
\* interpretation on the overlay or on the map, no error shown
C29_NoShapeStep ==
    (last'.op = "analyzeLocal" /\ NoBoundary)
    => /\ status' = "NO SHAPE DETECTED"
       /\ analysis'[1].localRuns = analysis[1].localRuns + 1
       /\ errorShown' = errorShown
       /\ ~ \E t \in analysis'[1].timeouts : t.kind \in {"localResult", "closeLocal"}
       /\ analysis'[1].classified = analysis[1].classified
       /\ analysis'[1].overlay = analysis[1].overlay
       /\ analysis'[1].overlay.kind \notin {"local", "cloud"}
       /\ analysis'[1].onMap = analysis[1].onMap
       /\ analysis'[1].outlineLayer = analysis[1].outlineLayer

\* C29: when the extractor finds no boundary, analyzeLocal returns without
\* an exception, with the status NO SHAPE DETECTED, no classification and
\* no interpretation shown, and afterwards the status is reset to ONLINE.
C29_NoShapeIsTransient ==
    /\ [][C29_NoShapeStep]_vars
    /\ (last.op = "analyzeLocal" /\ status = "NO SHAPE DETECTED") ~> (status = "ONLINE")

\* the status has been reset after a local analysis that found no boundary
C29_Witness ==
    /\ last.op = "statusReset"
    /\ status = "ONLINE"
    /\ analysis[1].analysisMode = "local"
    /\ analysis[1].localRuns = 1
    /\ analysis[1].classified = 0
    /\ NoBoundary

\* the same after the local analysis that follows a failure of the namer
C29_WitnessFallback ==
    /\ last.op = "statusReset"
    /\ status = "ONLINE"
    /\ errorShown \in ApiErrors
    /\ analysis[1].localRuns = 1
    /\ analysis[1].classified = 0
    /\ NoBoundary

\* one block has been visited; its corners, clockwise from the top left
CellVisited == extraction # <<>> /\ extraction[1].result # <<>>

Corner(dx, dy) ==
    IF extraction[1].grid[dy + 1][extraction[1].x + dx + 1] > threshold THEN 1 ELSE 0

BlockIndex == (Corner(0, 0) * 8) + (Corner(1, 0) * 4) + (Corner(1, 1) * 2) + Corner(0, 1)

\* the midpoint of the cell edge between corners (ax, ay) and (bx, by), in
\* container units: ((x + (ax + bx) / 2) / 0.75, ((ay + by) / 2) / 0.75)
EdgeMidpoint(ax, ay, bx, by) ==
    <<((2 * extraction[1].x + ax + bx) * Px * scaleDen) \div (2 * scaleNum),
      ((ay + by) * Px * scaleDen) \div (2 * scaleNum)>>

\* the midpoints of the edges whose two corners differ
CrossedEdges ==
    {EdgeMidpoint(e[1], e[2], e[3], e[4]) :
        e \in {e \in {<<0, 0, 1, 0>>, <<1, 0, 1, 1>>, <<0, 1, 1, 1>>, <<0, 0, 0, 1>>} :
                  Corner(e[1], e[2]) # Corner(e[3], e[4])}}

\* the ends of the emitted segments, one entry per end
EmittedEnds ==
    LET segs == extraction[1].result[1].segments
    IN [n \in 1..(2 * Len(segs)) |->
           IF n % 2 = 1 THEN <<segs[(n + 1) \div 2][1], segs[(n + 1) \div 2][2]>>
           ELSE <<segs[n \div 2][3], segs[n \div 2][4]>>]

\* C30: for every 2x2 block with index TL*8 + TR*4 + BR*2 + BL, the ends of
\* the emitted segments are exactly the midpoints of the cell edges whose two
\* corners differ, each used exactly once: indices 0 and 15 emit nothing, the
\* saddles 5 and 10 emit two segments, always the same two, and every other
\* index emits one.
C30_SegmentsOnCrossedEdges ==
    CellVisited =>
       LET segs == extraction[1].result[1].segments
           ends == EmittedEnds
       IN /\ {ends[n] : n \in DOMAIN ends} = CrossedEdges
          /\ \A m, n \in DOMAIN ends : ends[m] = ends[n] => m = n
          /\ Len(segs) = IF BlockIndex \in {0, 15} THEN 0
                         ELSE IF BlockIndex \in {5, 10} THEN 2 ELSE 1
          /\ BlockIndex = 5 =>
                segs = <<EdgeMidpoint(0, 0, 0, 1) \o EdgeMidpoint(0, 0, 1, 0),
                         EdgeMidpoint(0, 1, 1, 1) \o EdgeMidpoint(1, 0, 1, 1)>>
          /\ BlockIndex = 10 =>
                segs = <<EdgeMidpoint(0, 0, 1, 0) \o EdgeMidpoint(1, 0, 1, 1),
                         EdgeMidpoint(0, 0, 0, 1) \o EdgeMidpoint(0, 1, 1, 1)>>

\* the second block of a row is a saddle: two segments over its four edges
C30_Witness ==
    /\ CellVisited
    /\ extraction[1].x = 1
    /\ BlockIndex = 10
    /\ Len(extraction[1].result[1].segments) = 2
    /\ Cardinality(CrossedEdges) = 4

\* getState has answered for a sample
Sampled == extraction # <<>> /\ "state" \in DOMAIN extraction[1] /\ extraction[1].state # <<>>

InGrid == extraction[1].x \in 0..(SampleCols - 1) /\ extraction[1].y \in 0..1

\* the alpha of the sample asked for, when it is in the grid
SampleAlphaAt == extraction[1].grid[extraction[1].y + 1][extraction[1].x + 1]

\* C31: a downsampled sample counts as inside the mask if and only if its
\* alpha is strictly greater than 60 (a sample of alpha 60 is outside), and
\* a sample outside the grid counts as outside.
C31_InsideIffAboveThreshold ==
    Sampled =>
        /\ extraction[1].state[1] \in {0, 1}
        /\ InGrid => (extraction[1].state[1] = 1 <=> SampleAlphaAt > 60)
        /\ ~InGrid => extraction[1].state[1] = 0

\* a sample of alpha 60 in the grid has been found outside
C31_Witness == Sampled /\ InGrid /\ SampleAlphaAt = 60 /\ extraction[1].state[1] = 0

\* a sample of alpha 61 has been found inside
C31_WitnessAbove == Sampled /\ InGrid /\ SampleAlphaAt = 61 /\ extraction[1].state[1] = 1

\* a sample beyond the right edge of a grid of inside samples is outside
C31_WitnessBeyond ==
    /\ Sampled
    /\ extraction[1].x = SampleCols
    /\ extraction[1].y = 0
    /\ extraction[1].grid[1][SampleCols] = 255
    /\ extraction[1].state[1] = 0

\* the image generation of a cloud analysis is over, for a selection in
\* which the extractor found no segments and a shape the namer has named
C32_LabelStep ==
    (/\ last'.op = "generated"
     /\ analysis[1].selection # <<>>
     /\ \E t \in analysis[1].timeouts :
           t.kind = "generated" /\ t.blob = <<>> /\ t \notin analysis'[1].timeouts)
    => /\ status' = "ANALYSIS COMPLETE"
       /\ errorShown' = errorShown
       /\ analysis'[1].overlay.display
       /\ analysis'[1].overlay.kind = "cloud"
       /\ \E t \in analysis[1].timeouts :
             t.kind = "generated" /\ analysis'[1].overlay.label = t.result[1].label

\* C32: in a cloud analysis with a selection in which the extractor finds
\* no segments, a name given by the namer is shown as the label for the
\* selection and the analysis ends with ANALYSIS COMPLETE, not with an
\* error.
C32_SelectionWithoutSegmentsIsLabelled == [][C32_LabelStep]_vars

\* the index is in the list and the layer holds the frame it names
IndexNamesLayerFrame ==
    /\ 0 <= currentFrameIndex
    /\ currentFrameIndex < Len(frames)
    /\ layerFrame = <<frames[currentFrameIndex + 1]>>

\* C33: whenever the frame list is not empty after a metadata load,
\* 0 <= currentFrameIndex < frames.length and the layer's frame is
\* frames[currentFrameIndex], for every feed, a feed with an empty past
\* list and a forecast included, and after every showFrame call, scrubber
\* input and animation tick.
C33_IndexInRange == (radarLoaded /\ frames # <<>>) => IndexNamesLayerFrame

\* the part of C33 that the code keeps: a load of a feed with a past frame
\* establishes it, the scrubber and the ticks preserve it, and showFrame of
\* an index out of range changes nothing
C33_KeptStep ==
    /\ (LoadStep /\ frames' # <<>> /\ Len(last'.feed[1].past[1]) > 0) => IndexNamesLayerFrame'
    /\ (IndexNamesLayerFrame /\ last'.op \in {"scrubber", "tick"}) => IndexNamesLayerFrame'
    /\ (last'.op \in {"scrubber", "tick"} /\ ~last'.ran)
         => UNCHANGED <<frames, currentFrameIndex, layerFrame, cacheVars>>

C33_KeptByShowFrame == [][C33_KeptStep]_vars

\* the scrubber was given an index out of range on a loaded list
C33_KeptWitness ==
    /\ last.op = "scrubber" /\ ~last.ran
    /\ last.index = Len(frames)
    /\ Len(frames) = 4
    /\ IndexNamesLayerFrame

\* C34: after any sequence of presses of the play button and scrubber
\* inputs, isPlaying is true if and only if exactly one animation interval
\* is active; two are never active, and none is while isPlaying is false.
C34_PlayingIffOneInterval ==
    /\ Cardinality(timers) <= 1
    /\ isPlaying <=> Cardinality(timers) = 1
    /\ isPlaying => timers = {playInterval[1]}

\* the animation was started, stopped and started again, and has ticked
C34_Witness ==
    /\ isPlaying
    /\ timers = {2}
    /\ last.op = "tick"

\* the scrubber has stopped a running animation
C34_WitnessScrubber ==
    /\ ~isPlaying
    /\ timers = {}
    /\ playInterval = <<1>>
    /\ last.op = "scrubber"

\* the interaction flags of the selection tool that are true
InteractionFlags ==
    {f \in {"isSelecting", "isDraggingSelection", "isResizingSelection"} :
        \/ f = "isSelecting" /\ selectionTool[1].isSelecting
        \/ f = "isDraggingSelection" /\ selectionTool[1].isDraggingSelection
        \/ f = "isResizingSelection" /\ selectionTool[1].isResizingSelection}

\* C35: after any sequence of mouse or touch down, move and up events,
\* handle presses and selection-mode toggles, at most one of isSelecting,
\* isDraggingSelection and isResizingSelection is true.
C35_AtMostOneInteraction ==
    selectionTool # <<>> => Cardinality(InteractionFlags) <= 1

\* C36: map dragging is enabled in every state in which selection mode is
\* off, after any sequence of selection-mode toggles interleaved with mouse
\* down, move and up events and handle presses.
C36_DraggingOutsideSelectionMode ==
    selectionTool # <<>> =>
        (~selectionTool[1].isSelectionMode => selectionTool[1].dragging)

\* the outline layers on the map
OutlinesOnMap == {l \in analysis[1].onMap : l.kind = "outline"}

\* C37: after any sequence of identifyObject invocations and completions
\* of the analyses they schedule, at most one outline layer is on the map
\* and this.outlineLayer refers to it: no outline of an earlier analysis is
\* left on the map.
C37_OneOutlineOnMap ==
    analysis # <<>> =>
        /\ Cardinality(OutlinesOnMap) <= 1
        /\ \A l \in OutlinesOnMap : analysis[1].outlineLayer = <<l>>

\* a local interpretation is displayed with its outline on the map, and the
\* auto-close timer it set, the timeout created right after its outline
\* layer, has not fired
OwnTimerPending(a) ==
    /\ a.overlay.display /\ a.overlay.kind = "local"
    /\ a.outlineLayer # <<>> /\ a.outlineLayer[1] \in a.onMap
    /\ \E t \in a.timeouts : t.kind = "closeLocal" /\ t.id = a.outlineLayer[1].id + 1

C38_AutoCloseStep ==
    (/\ analysis # <<>> /\ OwnTimerPending(analysis[1])
     /\ last'.op = "autoClose"
     /\ \E t \in analysis'[1].timeouts :
            t.kind = "closeLocal" /\ t.id = analysis[1].outlineLayer[1].id + 1)
        => OwnTimerPending(analysis'[1]) /\ analysis'[1].outlineLayer = analysis[1].outlineLayer

\* C38: the auto-close timer of an interpretation closes only that
\* interpretation: while the timer of the interpretation on display is
\* pending, the firing of another interpretation's timer leaves it
\* displayed and its outline on the map.
C38_TimerClosesOwnInterpretation == [][C38_AutoCloseStep]_vars

C39_RenderStep ==
    (/\ status = "NO SHAPE DETECTED"
     /\ analysis # <<>>
     /\ \E t \in analysis[1].timeouts : t.kind = "statusReset"
     /\ last'.op = "render")
        => status' = "NO SHAPE DETECTED"

\* C39: NO SHAPE DETECTED, set by the local analysis, stays the status
\* until its reset to ONLINE: a render pass in between replaces it neither
\* with ONLINE nor with SCANNING...
C39_NoShapeOutlastsRender == [][C39_RenderStep]_vars

====
